---------------------------- MODULE Spec2Model ----------------------------
(***************************************************************************)
(* A model of the reactive-state and focus-management core of caribou:     *)
(*   - the focus tracker (src/src/caribou/focus.rs),                       *)
(*   - the reactive cells State / OptionalState / StateVec / StateMap      *)
(*     (src/src/caribou/state.rs),                                         *)
(*   - the gadget tree mutated by Layout::add_child / remove_child         *)
(*     (src/src/caribou/layout.rs).                                        *)
(* Each part has its own specification over the shared variables.          *)
(***************************************************************************)
EXTENDS Integers, Sequences, FiniteSets, TLC

(***************************************************************************)
(* Bounds of the model.                                                    *)
(***************************************************************************)
\* calls made on a cell or on the tree in one run
MaxCalls == 4
\* iterations after which a loop of cycle() is reported as not terminating
MaxSteps == 12
\* add_child calls of the set-up that builds the tree before the first Tab
MaxSetup == 2

(***************************************************************************)
(* The gadgets.  R is the gadget handed to Window::new (window.root), X    *)
(* and Y are two further gadgets; all three stay alive (the application    *)
(* holds a strong handle to each).                                         *)
(***************************************************************************)
Root == "R"
Gadgets == {"R", "X", "Y"}
Leaves == Gadgets \ {Root}
\* Option::None of a GadgetRef cell, GadgetParent::None
NoGadget == "None"
\* GadgetParent::Window(_)
WindowParent == "Window"

VARIABLES
    \* ---- focus tracker and tree -------------------------------------
    focused,        \* CaribouFocus.focused : OptionalState<GadgetRef>
    manual_order,   \* CaribouFocus.manual_order : Option<Vec<GadgetRef>>
    parent,         \* GadgetInner.parent, per gadget
    children,       \* GadgetInner.children, per gadget
    propagate,      \* GadgetInner.propagate, per gadget
    accept_focus,   \* GadgetInner.accept_focus, per gadget
    lock_focus,     \* GadgetInner.lock_focus, per gadget
    gadget_focused, \* GadgetInner.focused, per gadget
    \* ---- reactive cells ---------------------------------------------
    state_cell,     \* a State<T>: [data, listeners, identities]
    optional_cell,  \* an OptionalState<T>: [data, on_set, on_unset, on_change,
                    \*                       id_set, id_unset, id_change]
    vec_cell,       \* a StateVec<T>: [data, on_add, on_set, on_remove,
                    \*                 id_add, id_set, id_remove]
    tasks,          \* tasks handed to async_runtime().spawn and not yet run
    spawned,        \* every task spawned so far, in spawn order (history)
    delivered,      \* what each finished listener task saw (history)
    installed,      \* the set calls made on state_cell so far: the value each
                    \* installed and the listeners registered then (history)
    removed,        \* the closures whose name was passed to remove_listener
                    \* after they were registered (history)
    calls,          \* number of calls made so far (bounded)
    running,        \* the call in progress and the line it has reached, for
                    \* the calls followed line by line; Idle between calls
    held,           \* per gadget: the strong handles (Gadget) the
                    \* application holds
    alive,          \* per gadget: its GadgetInner has not been dropped
    \* ---- history ----------------------------------------------------
    last            \* what the last operation was and what it saw

focusVars == <<focused, manual_order, propagate, accept_focus, lock_focus,
               gadget_focused>>
treeVars == <<parent, children>>
cellVars == <<state_cell, optional_cell, vec_cell>>
poolVars == <<tasks, spawned, delivered, installed, removed>>
restVars == <<running, held, alive>>

vars == <<focused, manual_order, parent, children, propagate, accept_focus,
          lock_focus, gadget_focused, state_cell, optional_cell, vec_cell,
          tasks, spawned, delivered, installed, removed, calls, running,
          held, alive, last>>

(***************************************************************************)
(* Sequence helpers.                                                       *)
(***************************************************************************)
\* Iterator::position: 0-based index of the first element equal to x, -1 for None
RECURSIVE PositionFrom(_, _, _)
PositionFrom(s, x, i) ==
    IF i > Len(s) THEN -1
    ELSE IF s[i] = x THEN i - 1
    ELSE PositionFrom(s, x, i + 1)

Position(s, x) == PositionFrom(s, x, 1)

\* all sequences over S of length at most n
RECURSIVE SeqsUpTo(_, _)
SeqsUpTo(S, n) ==
    IF n = 0 THEN {<<>>}
    ELSE LET shorter == SeqsUpTo(S, n - 1)
         IN shorter \cup {Append(s, x) : s \in shorter, x \in S}

\* Vec::remove(index) with a 0-based index
RemoveIndex(s, i) == SubSeq(s, 1, i) \o SubSeq(s, i + 2, Len(s))

\* Vec::retain(|c| c != x)
RECURSIVE Retain(_, _)
Retain(s, x) ==
    IF s = <<>> THEN <<>>
    ELSE IF s[1] = x THEN Retain(Tail(s), x)
    ELSE <<s[1]>> \o Retain(Tail(s), x)

Count(s, x) == Cardinality({i \in 1..Len(s) : s[i] = x})

Range(s) == {s[i] : i \in 1..Len(s)}

\* the sequences over S that name no element twice
NoDupSeqs(S) == {s \in SeqsUpTo(S, Cardinality(S)) : \A x \in S : Count(s, x) <= 1}

(***************************************************************************)
(* The focus tracker: CaribouFocus (focus.rs).                             *)
(* A tracker value t is [focused, gfocused, reads, outcome]: the focused   *)
(* cell, every gadget's `focused` cell, the set of gadgets whose           *)
(* accept_focus cell the running cycle() has read so far, and how the call *)
(* ended: "returned", "panicked" (an index out of bounds or an unwrap of   *)
(* None aborts the task; the cells keep what was written before), or       *)
(* "diverged" (a loop that does not end).                                  *)
(***************************************************************************)
Returned == "returned"
Panicked == "panicked"
Diverged == "diverged"

\* a faulty GadgetRef::get: a reference to a dropped gadget still resolves
GadgetRef_get_dropped(g) == g

\* GadgetRef::get: Weak::upgrade gives the gadget while its GadgetInner has
\* not been dropped and None afterwards; the default reference is None too
GadgetRef_get(g) ==
    IF g \in Gadgets /\ alive[g] THEN g ELSE NoGadget

Tracker(f, gf) == [focused |-> f, gfocused |-> gf, reads |-> {}, outcome |-> Returned]

\* a faulty focus_locked: the holder's lock_focus cell is ignored
focus_locked_ignored(t) == FALSE

\* CaribouFocus::focus_locked
focus_locked(t) ==
    IF GadgetRef_get(t.focused) = NoGadget THEN FALSE ELSE lock_focus[t.focused]

\* a faulty clear_focus: the cell is emptied, the gadget's flag is left set
clear_focus_keeps_flag(t) == [t EXCEPT !.focused = NoGadget]

\* CaribouFocus::clear_focus: focused.take(), then gadget.focused.set(false)
clear_focus(t) ==
    IF t.focused = NoGadget THEN t
    ELSE IF GadgetRef_get(t.focused) = NoGadget THEN [t EXCEPT !.focused = NoGadget]
    ELSE [t EXCEPT !.focused = NoGadget, !.gfocused[t.focused] = FALSE]

\* self.focused.put(g.refer()); g.focused.set(true)
give_focus(t, g) ==
    [t EXCEPT !.focused = g, !.gfocused[g] = TRUE]

\* the loop of focus_propagate over its stack of frames; a frame is
\* [children, index] with a 0-based index
RECURSIVE propagate_loop(_, _, _)
propagate_loop(stack, reads, fuel) ==
    IF stack = <<>> THEN [found |-> NoGadget, reads |-> reads, outcome |-> Returned]
    ELSE IF fuel = 0 THEN [found |-> NoGadget, reads |-> reads, outcome |-> Diverged]
    ELSE
        LET n   == Len(stack)
            top == stack[n]
        IN  IF top.index >= Len(top.children)
            THEN propagate_loop(SubSeq(stack, 1, n - 1), reads, fuel - 1)
            ELSE
                LET child  == top.children[top.index + 1]
                    stack1 == [stack EXCEPT ![n].index = top.index + 1]
                    reads1 == reads \cup {child}
                IN  IF accept_focus[child]
                    THEN [found |-> child, reads |-> reads1, outcome |-> Returned]
                    ELSE IF propagate[child]
                    THEN propagate_loop(
                            Append(stack1, [children |-> children[child], index |-> 0]),
                            reads1, fuel - 1)
                    ELSE propagate_loop(stack1, reads1, fuel - 1)

\* a faulty focus_propagate: the search restarts at the first child
focus_propagate_restart(gadget, from) ==
    propagate_loop(<<[children |-> children[gadget], index |-> 0]>>, {}, MaxSteps)

\* focus_propagate(gadget, from)
focus_propagate(gadget, from) ==
    propagate_loop(<<[children |-> children[gadget], index |-> from]>>, {}, MaxSteps)

\* the manual branch's start index
manual_begin(t, order) ==
    IF t.focused = NoGadget THEN 0
    ELSE LET pos == Position(order, t.focused)
         IN IF pos = -1 THEN 0 ELSE pos + 1

\* the manual branch's scan loop
RECURSIVE manual_loop(_, _, _, _, _)
manual_loop(t, order, cur, begin, fuel) ==
    IF cur >= Len(order) THEN [t EXCEPT !.outcome = Panicked]
    ELSE IF fuel = 0 THEN [t EXCEPT !.outcome = Diverged]
    ELSE
        LET gadget == order[cur + 1]
            t1     == IF GadgetRef_get(gadget) = NoGadget THEN t
                      ELSE [t EXCEPT !.reads = @ \cup {gadget}]
            next   == (cur + 1) % Len(order)
        IN  IF GadgetRef_get(gadget) # NoGadget /\ accept_focus[gadget]
            THEN IF focus_locked(t1) THEN t1
                 ELSE give_focus(clear_focus(t1), gadget)
            ELSE IF next = begin THEN t1
            ELSE manual_loop(t1, order, next, begin, fuel - 1)

\* a faulty scan: the index that ends the scan is one no entry has
cycle_manual_no_end(t, order) ==
    LET begin == manual_begin(t, order)
    IN  manual_loop(t, order, begin, Len(order), MaxSteps)

cycle_manual(t, order) ==
    LET begin == manual_begin(t, order)
    IN  manual_loop(t, order, begin, begin, MaxSteps)

\* the automatic branch's upward walk from the gadget that held the focus
RECURSIVE auto_walk(_, _, _)
auto_walk(t, cur, fuel) ==
    IF fuel = 0 THEN [t EXCEPT !.outcome = Diverged]
    ELSE IF parent[cur] \in {NoGadget, WindowParent} THEN t
    ELSE IF GadgetRef_get(parent[cur]) = NoGadget    \* gr.get().unwrap()
         THEN [t EXCEPT !.outcome = Panicked]
    ELSE
        LET p == parent[cur]
        IN  IF propagate[p]
            THEN LET index == Position(children[p], cur)
                 IN IF index = -1 THEN [t EXCEPT !.outcome = Panicked]
                    ELSE LET r  == focus_propagate(p, index + 1)
                             t1 == [t EXCEPT !.reads = @ \cup r.reads]
                         IN IF r.outcome # Returned
                            THEN [t1 EXCEPT !.outcome = r.outcome]
                            ELSE IF r.found # NoGadget
                            THEN give_focus(t1, r.found)
                            ELSE auto_walk(t1, p, fuel - 1)
            ELSE auto_walk(t, p, fuel - 1)

\* a faulty distribution from the root: the root's propagate cell is ignored
auto_from_root_always(t) ==
    LET r  == focus_propagate(Root, 0)
        t1 == [t EXCEPT !.reads = @ \cup r.reads]
    IN  IF r.outcome # Returned THEN [t1 EXCEPT !.outcome = r.outcome]
        ELSE IF r.found # NoGadget THEN give_focus(t1, r.found)
        ELSE t1

\* the automatic branch with nothing focused: distribute from window.root
auto_from_root(t) ==
    IF propagate[Root]
    THEN LET r  == focus_propagate(Root, 0)
             t1 == [t EXCEPT !.reads = @ \cup r.reads]
         IN IF r.outcome # Returned THEN [t1 EXCEPT !.outcome = r.outcome]
            ELSE IF r.found # NoGadget THEN give_focus(t1, r.found)
            ELSE t1
    ELSE t

cycle_auto(t) ==
    IF GadgetRef_get(t.focused) = NoGadget THEN auto_from_root(t)
    ELSE IF lock_focus[t.focused] THEN t
    ELSE auto_walk(clear_focus(t), t.focused, MaxSteps)

\* CaribouFocus::cycle
cycle(t) ==
    IF manual_order.some THEN cycle_manual(t, manual_order.order)
    ELSE cycle_auto(t)

(***************************************************************************)
(* The gadget tree: Layout::add_child / Layout::remove_child (layout.rs).  *)
(* A tree value is [parent, children].                                     *)
(***************************************************************************)
\* Layout::add_child(parent, child)
\* layout.rs:133  child.parent.set(GadgetParent::Gadget(parent.refer())).await
add_child_set(tree, p, c) ==
    [tree EXCEPT !.parent[c] = p]

\* layout.rs:134  parent.children.push(child).await
add_child_push(tree, p, c) ==
    [tree EXCEPT !.children[p] = Append(@, c)]

add_child(tree, p, c) ==
    add_child_push(add_child_set(tree, p, c), p, c)

\* Layout::remove_child(parent, child)
\* layout.rs:138  child.parent.set(GadgetParent::None).await
remove_child_set(tree, p, c) ==
    [tree EXCEPT !.parent[c] = NoGadget]

\* layout.rs:139  parent.children.get_vec_mut().await.retain(|c| c != &child)
remove_child_retain(tree, p, c) ==
    [tree EXCEPT !.children[p] = Retain(@, c)]

remove_child(tree, p, c) ==
    remove_child_retain(remove_child_set(tree, p, c), p, c)

\* Gadget::get_window: follow the parent cells upward until a gadget without
\* parent (no window) or the window's root is met.  The loop has no bound of
\* its own; a walk longer than the number of gadgets has revisited one and
\* never ends.
RECURSIVE get_window_loop(_, _, _)
get_window_loop(tree, current, fuel) ==
    IF fuel = 0 THEN [outcome |-> Diverged, window |-> FALSE]
    ELSE IF tree.parent[current] = NoGadget
         THEN [outcome |-> Returned, window |-> FALSE]
    ELSE IF tree.parent[current] = WindowParent
         THEN [outcome |-> Returned, window |-> TRUE]
    ELSE IF GadgetRef_get(tree.parent[current]) = NoGadget    \* next.get()?
         THEN [outcome |-> Returned, window |-> FALSE]
    ELSE get_window_loop(tree, tree.parent[current], fuel - 1)

\* a faulty get_window: only the gadget's own parent cell is looked at
get_window_own_parent(tree, gadget) ==
    [outcome |-> Returned, window |-> tree.parent[gadget] = WindowParent]

get_window(tree, gadget) ==
    get_window_loop(tree, gadget, Cardinality(Gadgets) + 1)

\* gadget_default_inner for every gadget, then Window::new(backend, R), which
\* sets R's parent to the window
BareTree ==
    [parent   |-> [g \in Gadgets |-> IF g = Root THEN WindowParent ELSE NoGadget],
     children |-> [g \in Gadgets |-> <<>>]]

\* p is c or lies below c
RECURSIVE IsBelow(_, _, _, _)
IsBelow(tree, p, c, fuel) ==
    IF p = c THEN TRUE
    ELSE IF fuel = 0 \/ tree.parent[p] \notin Gadgets THEN FALSE
    ELSE IsBelow(tree, tree.parent[p], c, fuel - 1)

\* the trees an application builds before the first Tab: at most n add_child
\* calls, each attaching a gadget that has no parent yet below a gadget that
\* is not its own descendant (as main.rs does)
RECURSIVE SetupTrees(_)
SetupTrees(n) ==
    IF n = 0 THEN {BareTree}
    ELSE LET before == SetupTrees(n - 1)
         IN before \cup UNION
            {{add_child(t, q[1], q[2]) :
                q \in {r \in Gadgets \X Leaves :
                         /\ t.parent[r[2]] = NoGadget
                         /\ ~IsBelow(t, r[1], r[2], Cardinality(Gadgets))}} :
             t \in before}

(***************************************************************************)
(* Values every specification starts from.                                 *)
(***************************************************************************)
AllFalse == [g \in Gadgets |-> FALSE]
AllTrue == [g \in Gadgets |-> TRUE]

\* Option<T>: None is <<>>, Some(v) is <<v>>
None == <<>>
Some(v) == <<v>>

\* State::new(gadget, data)
StateNew(v) == [data |-> v, listeners |-> <<>>, identities |-> <<>>]

\* OptionalState::new(gadget, data)
OptionalNew(d) ==
    [data |-> d, on_set |-> <<>>, on_unset |-> <<>>, on_change |-> <<>>,
     id_set |-> <<>>, id_unset |-> <<>>, id_change |-> <<>>]

\* StateVec::new(gadget)
VecNew ==
    [data |-> <<>>, on_add |-> <<>>, on_set |-> <<>>, on_remove |-> <<>>,
     id_add |-> <<>>, id_set |-> <<>>, id_remove |-> <<>>]

CellsIdle ==
    /\ state_cell = StateNew(0)
    /\ optional_cell = OptionalNew(None)
    /\ vec_cell = VecNew
    /\ tasks = {}
    /\ spawned = <<>>
    /\ delivered = {}
    /\ installed = <<>>
    /\ removed = {}
    /\ calls = 0

\* CaribouFocus::default and gadget_default_inner, no tree built
FocusIdle ==
    /\ focused = NoGadget
    /\ manual_order = [some |-> FALSE, order |-> <<>>]
    /\ propagate = AllTrue
    /\ accept_focus = AllFalse
    /\ lock_focus = AllFalse
    /\ gadget_focused = AllFalse

TreeIdle ==
    /\ parent = BareTree.parent
    /\ children = BareTree.children

\* no call in progress; the application holds one handle to every gadget it
\* created, so all of them are alive
Idle == [op |-> "idle"]

RestIdle ==
    /\ running = Idle
    /\ held = [g \in Gadgets |-> 1]
    /\ alive = [g \in Gadgets |-> TRUE]

(***************************************************************************)
(* SpecFocus: the focus tracker after the application's set-up.  R was     *)
(* made by Layout::create, X and Y by Layout::create or Button::create     *)
(* (the latter sets accept_focus), the tree was built with add_child, and  *)
(* the application may have installed a manual order over X and Y.  Then   *)
(* Tab presses call cycle() and the application sets the focus flags of    *)
(* the gadgets, in any order.                                              *)
(***************************************************************************)
NoCycle ==
    [op |-> "set", focused |-> NoGadget, gfocused |-> AllFalse,
     locked |-> FALSE, reads |-> {}, outcome |-> Returned]

FocusInit ==
    /\ focused = NoGadget
    /\ \E order \in NoDupSeqs(Leaves), some \in BOOLEAN :
          manual_order = [some |-> some, order |-> IF some THEN order ELSE <<>>]
    /\ \E t \in SetupTrees(MaxSetup) :
          /\ parent = t.parent
          /\ children = t.children
    /\ propagate = AllTrue
    /\ accept_focus \in {f \in [Gadgets -> BOOLEAN] : ~f[Root]}
    /\ lock_focus = AllFalse
    /\ gadget_focused = AllFalse
    /\ CellsIdle
    /\ RestIdle
    /\ last = [NoCycle EXCEPT !.op = "init"]

\* a Tab press: the whole of CaribouFocus::cycle
Cycle ==
    LET before == Tracker(focused, gadget_focused)
        after  == cycle(before)
    IN  /\ focused' = after.focused
        /\ gadget_focused' = after.gfocused
        /\ last' = [op |-> "cycle", focused |-> focused,
                    gfocused |-> gadget_focused,
                    locked |-> focused # NoGadget /\ lock_focus[focused],
                    reads |-> after.reads, outcome |-> after.outcome]
        /\ UNCHANGED <<manual_order, propagate, accept_focus, lock_focus,
                       treeVars, restVars, cellVars, poolVars, calls>>

\* gadget.propagate.set(b)
SetPropagate(g, b) ==
    /\ propagate' = [propagate EXCEPT ![g] = b]
    /\ last' = NoCycle
    /\ UNCHANGED <<focused, manual_order, accept_focus, lock_focus,
                   gadget_focused, treeVars, restVars, cellVars, poolVars, calls>>

\* gadget.accept_focus.set(b)
SetAcceptFocus(g, b) ==
    /\ accept_focus' = [accept_focus EXCEPT ![g] = b]
    /\ last' = NoCycle
    /\ UNCHANGED <<focused, manual_order, propagate, lock_focus,
                   gadget_focused, treeVars, restVars, cellVars, poolVars, calls>>

\* gadget.lock_focus.set(b)
SetLockFocus(g, b) ==
    /\ lock_focus' = [lock_focus EXCEPT ![g] = b]
    /\ last' = NoCycle
    /\ UNCHANGED <<focused, manual_order, propagate, accept_focus,
                   gadget_focused, treeVars, restVars, cellVars, poolVars, calls>>

FocusNext ==
    \/ Cycle
    \/ \E g \in Gadgets, b \in BOOLEAN : SetPropagate(g, b)
    \/ \E g \in Leaves, b \in BOOLEAN : SetAcceptFocus(g, b)
    \/ \E g \in Leaves, b \in BOOLEAN : SetLockFocus(g, b)

SpecFocus == FocusInit /\ [][FocusNext]_vars

(***************************************************************************)
(* The reactive cells (state.rs).                                          *)
(*                                                                         *)
(* A closure passed to a listen call is [id, name]: id tells the closures  *)
(* apart (the n-th call of a run registers closure n) and name is the name *)
(* it was registered under; the code stores closures and names in two      *)
(* parallel Vecs, modelled as they are.                                    *)
(* A task is one future handed to async_runtime().spawn: [seq, listener,   *)
(* event, cause], with seq its place in the spawn order and cause the      *)
(* number of the set call that spawned it (history).  An event holds what  *)
(* the event struct holds: the cell handle (`state`) and the payload       *)
(* fields; the gadget back-reference is constant and left out.             *)
(***************************************************************************)
Values == {1, 2}
Names == {"a", "b"}

Closure(id, name) == [id |-> id, name |-> name]

\* for listener in listeners.iter() { async_runtime().spawn(listener(event.clone())) }
SpawnAll(listeners, event, cause, base) ==
    [i \in 1..Len(listeners) |->
        [seq |-> base + i, listener |-> listeners[i], event |-> event, cause |-> cause]]

\* the result of a call: the cell afterwards, the events it built, the
\* tasks it spawned, and how it ended
Done(cell, events, new) ==
    [cell |-> cell, events |-> events, new |-> new, outcome |-> Returned]

\* ---- State<T> ---------------------------------------------------------
\* StateChangedEvent { state, gadget }: no value travels in the event
StateChangedEvent == [cell |-> "state", kind |-> "changed"]

\* State::notify
State_notify(c, cause, base) ==
    SpawnAll(c.listeners, StateChangedEvent, cause, base)

\* a faulty store: the value is dropped and the cell keeps what it held
State_store_dropped(c, v) == c

\* state.rs:249-250  let mut lock = self.data.write().await; *lock = data;
State_store(c, v) ==
    [c EXCEPT !.data = v]

\* a faulty return: set joins the listener tasks it spawned, and returns
\* only when none of them is still to run or running
State_set_joins(pool, seen, cause) ==
    /\ \A t \in pool : t.cause # cause
    /\ \A d \in seen : d.task.cause = cause => d.done

\* state.rs:251-252  notify() has handed the listener futures to the
\* runtime with spawn and keeps no JoinHandle: set returns whatever the
\* tasks in the pool and the tasks that ran are doing
State_set_returns(pool, seen, cause) == TRUE

\* State::set
State_set(c, v, cause, base) ==
    LET c1 == State_store(c, v)
    IN  Done(c1, <<StateChangedEvent>>, State_notify(c1, cause, base))

\* State::listen: the closure is pushed, the name is not recorded
State_listen(c, name, closure) ==
    [c EXCEPT !.listeners = Append(@, closure)]

\* State::remove_listener
State_remove_listener(c, name) ==
    LET index == Position(c.identities, name)
    IN  IF index = -1 THEN c
        ELSE [c EXCEPT !.listeners = RemoveIndex(@, index),
                       !.identities = RemoveIndex(@, index)]

\* the entry a removal by name is about: the earliest closure registered
\* under the name that no earlier removal was about (its id, as a set)
FirstNamed(listeners, name, gone) ==
    LET hits == {i \in 1..Len(listeners) :
                    listeners[i].name = name /\ listeners[i].id \notin gone}
    IN  IF hits = {} THEN {}
        ELSE {listeners[CHOOSE i \in hits : \A j \in hits : i <= j].id}

\* State::get_cloned through the handle an event carries
CellData(cell) ==
    CASE cell = "state" -> state_cell.data
      [] cell = "optional" -> optional_cell.data
      [] cell = "vec" -> vec_cell.data

\* ---- StateVec<T> -------------------------------------------------------
\* StateVecAddEvent { state, gadget, index, new_value }
StateVecAddEvent(index, new_value) ==
    [cell |-> "vec", kind |-> "add", index |-> index, new_value |-> new_value]

\* StateVecRemoveEvent { state, gadget, old_index, old_value }
StateVecRemoveEvent(old_index, old_value) ==
    [cell |-> "vec", kind |-> "remove", old_index |-> old_index, old_value |-> old_value]

\* StateVec::notify_add
Vec_notify_add(c, index, new_value, base) ==
    SpawnAll(c.on_add, StateVecAddEvent(index, new_value), 0, base)

\* StateVec::notify_remove
Vec_notify_remove(c, index, old_value, base) ==
    SpawnAll(c.on_remove, StateVecRemoveEvent(index, old_value), 0, base)

\* a faulty StateVec::push: the event reports the length after the push
Vec_push_index_after(c, v, base) ==
    LET c1 == [c EXCEPT !.data = Append(@, v)]
    IN  Done(c1, <<StateVecAddEvent(Len(c1.data), v)>>,
             Vec_notify_add(c1, Len(c1.data), v, base))

\* StateVec::push
Vec_push(c, v, base) ==
    LET c1 == [c EXCEPT !.data = Append(@, v)]
    IN  Done(c1, <<StateVecAddEvent(Len(c1.data) - 1, v)>>,
             Vec_notify_add(c1, Len(c1.data) - 1, v, base))

\* StateVec::remove_at; Vec::remove panics when the index is out of bounds
Vec_remove_at(c, index, base) ==
    IF index >= Len(c.data)
    THEN [cell |-> c, events |-> <<>>, new |-> <<>>, outcome |-> Panicked]
    ELSE LET old_value == c.data[index + 1]
             c1 == [c EXCEPT !.data = RemoveIndex(@, index)]
         IN  Done(c1, <<StateVecRemoveEvent(index, old_value)>>,
                  Vec_notify_remove(c1, index, old_value, base))

\* StateVec::remove: position(..)? returns None when the value is absent
Vec_remove(c, v, base) ==
    LET index == Position(c.data, v)
    IN  IF index = -1 THEN Done(c, <<>>, <<>>)
        ELSE LET c1 == [c EXCEPT !.data = RemoveIndex(@, index)]
             IN  Done(c1, <<StateVecRemoveEvent(index, v)>>,
                      Vec_notify_remove(c1, index, v, base))

\* StateVec::pop: the event's index is the length after the pop
Vec_pop(c, base) ==
    IF c.data = <<>> THEN Done(c, <<>>, <<>>)
    ELSE LET value == c.data[Len(c.data)]
             c1 == [c EXCEPT !.data = SubSeq(@, 1, Len(@) - 1)]
         IN  Done(c1, <<StateVecRemoveEvent(Len(c1.data), value)>>,
                  Vec_notify_remove(c1, Len(c1.data), value, base))

\* StateVec::clear: while let Some(value) = lock.pop() { notify_remove(..) }
RECURSIVE Vec_clear_loop(_, _)
Vec_clear_loop(r, base) ==
    IF r.cell.data = <<>> THEN r
    ELSE LET one == Vec_pop(r.cell, base + Len(r.new))
         IN  Vec_clear_loop(Done(one.cell, r.events \o one.events, r.new \o one.new),
                            base)

Vec_clear(c, base) ==
    Vec_clear_loop(Done(c, <<>>, <<>>), base)

\* what Layout::remove_child does to the children cell:
\* get_vec_mut().await.retain(|c| c != &child), the cell's Vec changed in
\* place through its write guard
Vec_retain_out(c, v) ==
    Done([c EXCEPT !.data = Retain(@, v)], <<>>, <<>>)

\* StateVec::listen_add
Vec_listen_add(c, name, closure) ==
    [c EXCEPT !.on_add = Append(@, closure), !.id_add = Append(@, name)]

\* StateVec::listen_remove
Vec_listen_remove(c, name, closure) ==
    [c EXCEPT !.on_remove = Append(@, closure), !.id_remove = Append(@, name)]

\* StateVec::remove_listener_add
Vec_remove_listener_add(c, name) ==
    LET index == Position(c.id_add, name)
    IN  IF index = -1 THEN c
        ELSE [c EXCEPT !.on_add = RemoveIndex(@, index),
                       !.id_add = RemoveIndex(@, index)]

\* StateVec::remove_listener_remove
Vec_remove_listener_remove(c, name) ==
    LET index == Position(c.id_remove, name)
    IN  IF index = -1 THEN c
        ELSE [c EXCEPT !.on_remove = RemoveIndex(@, index),
                       !.id_remove = RemoveIndex(@, index)]

\* ---- OptionalState<T> --------------------------------------------------
\* OptionalStateSetEvent { state, gadget, value }
OptionalStateSetEvent(value) ==
    [cell |-> "optional", kind |-> "set", value |-> value]

\* OptionalStateUnsetEvent { state, last_value, gadget }
OptionalStateUnsetEvent(last_value) ==
    [cell |-> "optional", kind |-> "unset", last_value |-> last_value]

\* OptionalStateChangedEvent { state, last_value, new_value, gadget }
OptionalStateChangedEvent(last_value, new_value) ==
    [cell |-> "optional", kind |-> "change",
     last_value |-> last_value, new_value |-> new_value]

\* OptionalState::notify_set
Opt_notify_set(c, value, base) ==
    Done(c, <<OptionalStateSetEvent(value)>>,
         SpawnAll(c.on_set, OptionalStateSetEvent(value), 0, base))

\* OptionalState::notify_change
Opt_notify_change(c, last_value, new_value, base) ==
    Done(c, <<OptionalStateChangedEvent(last_value, new_value)>>,
         SpawnAll(c.on_change, OptionalStateChangedEvent(last_value, new_value), 0, base))

\* OptionalState::notify_unset
Opt_notify_unset(c, last_value, base) ==
    Done(c, <<OptionalStateUnsetEvent(last_value)>>,
         SpawnAll(c.on_unset, OptionalStateUnsetEvent(last_value), 0, base))

\* a faulty OptionalState::put: a replaced value is announced as a fresh one
Opt_put_always_set(c, data, base) ==
    Opt_notify_set([c EXCEPT !.data = Some(data)], data, base)

\* OptionalState::put
Opt_put(c, data, base) ==
    LET old_value == c.data
        c1 == [c EXCEPT !.data = Some(data)]
    IN  IF old_value = None THEN Opt_notify_set(c1, data, base)
        ELSE Opt_notify_change(c1, old_value[1], data, base)

\* OptionalState::take
Opt_take(c, base) ==
    LET data == c.data
        c1 == [c EXCEPT !.data = None]
    IN  IF data # None THEN Opt_notify_unset(c1, data[1], base)
        ELSE Done(c1, <<>>, <<>>)

\* OptionalState::set
Opt_set(c, data, base) ==
    LET last_value == c.data
        c1 == [c EXCEPT !.data = data]
    IN  IF last_value # None /\ data # None
        THEN Opt_notify_change(c1, last_value[1], data[1], base)
        ELSE IF last_value # None /\ data = None
        THEN Opt_notify_unset(c1, last_value[1], base)
        ELSE IF data # None /\ last_value = None
        THEN Opt_notify_set(c1, data[1], base)
        ELSE Done(c1, <<>>, <<>>)

\* OptionalState::listen_set
Opt_listen_set(c, name, closure) ==
    [c EXCEPT !.on_set = Append(@, closure), !.id_set = Append(@, name)]

\* OptionalState::listen_unset
Opt_listen_unset(c, name, closure) ==
    [c EXCEPT !.on_unset = Append(@, closure), !.id_unset = Append(@, name)]

\* OptionalState::listen_change
Opt_listen_change(c, name, closure) ==
    [c EXCEPT !.on_change = Append(@, closure), !.id_change = Append(@, name)]

\* OptionalState::remove_listener_set: position(..).unwrap() aborts the call
\* when the name is not registered
Opt_remove_listener_set(c, name) ==
    LET index == Position(c.id_set, name)
    IN  IF index = -1 THEN [Done(c, <<>>, <<>>) EXCEPT !.outcome = Panicked]
        ELSE IF index >= Len(c.on_set)      \* listeners.remove(index) panics
        THEN [Done(c, <<>>, <<>>) EXCEPT !.outcome = Panicked]
        ELSE Done([c EXCEPT !.on_set = RemoveIndex(@, index),
                            !.id_set = RemoveIndex(@, index)], <<>>, <<>>)

\* OptionalState::remove_listener_unset
Opt_remove_listener_unset(c, name) ==
    LET index == Position(c.id_unset, name)
    IN  IF index = -1 THEN [Done(c, <<>>, <<>>) EXCEPT !.outcome = Panicked]
        ELSE IF index >= Len(c.on_unset)      \* listeners.remove(index) panics
        THEN [Done(c, <<>>, <<>>) EXCEPT !.outcome = Panicked]
        ELSE Done([c EXCEPT !.on_unset = RemoveIndex(@, index),
                            !.id_unset = RemoveIndex(@, index)], <<>>, <<>>)

\* OptionalState::remove_listener_change
Opt_remove_listener_change(c, name) ==
    LET index == Position(c.id_change, name)
    IN  IF index = -1 THEN [Done(c, <<>>, <<>>) EXCEPT !.outcome = Panicked]
        ELSE IF index >= Len(c.on_change)      \* listeners.remove(index) panics
        THEN [Done(c, <<>>, <<>>) EXCEPT !.outcome = Panicked]
        ELSE Done([c EXCEPT !.on_change = RemoveIndex(@, index),
                            !.id_change = RemoveIndex(@, index)], <<>>, <<>>)

(***************************************************************************)
(* SpecState: one State<T> cell.  Callers register and remove listeners    *)
(* and set the value; the runtime runs the spawned listener tasks in any   *)
(* order, each reading the cell through the handle in its event.           *)
(***************************************************************************)
NoCall ==
    [op |-> "init", name |-> "", value |-> 0, index |-> 0,
     before |-> <<>>, events |-> <<>>, new |-> <<>>, outcome |-> Returned]

StateInit ==
    /\ FocusIdle
    /\ TreeIdle
    /\ CellsIdle
    /\ RestIdle
    /\ last = NoCall

\* cell.listen(name, closure)
StateListen(name) ==
    /\ calls < MaxCalls
    /\ calls' = calls + 1
    /\ state_cell' = State_listen(state_cell, name, Closure(calls + 1, name))
    /\ last' = [NoCall EXCEPT !.op = "listen", !.name = name,
                              !.before = <<state_cell>>]
    /\ UNCHANGED <<focusVars, treeVars, restVars, optional_cell, vec_cell, poolVars>>

\* cell.remove_listener(name)
StateRemoveListener(name) ==
    /\ calls < MaxCalls
    /\ calls' = calls + 1
    /\ state_cell' = State_remove_listener(state_cell, name)
    /\ removed' = removed \cup FirstNamed(state_cell.listeners, name, removed)
    /\ last' = [NoCall EXCEPT !.op = "remove_listener", !.name = name,
                              !.before = <<state_cell>>]
    /\ UNCHANGED <<focusVars, treeVars, restVars, optional_cell, vec_cell,
                   tasks, spawned, delivered, installed>>

\* cell.set(v)
StateSet(v) ==
    /\ calls < MaxCalls
    /\ calls' = calls + 1
    /\ LET r == State_set(state_cell, v, Len(installed) + 1, Len(spawned))
       IN  /\ state_cell' = r.cell
           /\ spawned' = spawned \o r.new
           /\ tasks' = tasks \cup Range(r.new)
           /\ installed' = Append(installed,
                               [value |-> v,
                                listeners |-> Range(state_cell.listeners)])
           /\ last' = [NoCall EXCEPT !.op = "set", !.value = v,
                                     !.before = <<state_cell>>,
                                     !.events = r.events, !.new = r.new]
    /\ UNCHANGED <<focusVars, treeVars, restVars, optional_cell, vec_cell, delivered, removed>>

\* the runtime runs one spawned listener task; the listener reads the cell
\* through event.state
RunTask(t) ==
    /\ t \in tasks
    /\ tasks' = tasks \ {t}
    /\ delivered' = delivered \cup {[task |-> t, saw |-> CellData(t.event.cell)]}
    /\ last' = [NoCall EXCEPT !.op = "run"]
    /\ UNCHANGED <<focusVars, treeVars, restVars, cellVars, spawned, installed, removed, calls>>

StateNext ==
    \/ \E name \in Names : StateListen(name)
    \/ \E name \in Names : StateRemoveListener(name)
    \/ \E v \in Values : StateSet(v)
    \/ \E t \in tasks : RunTask(t)

SpecState == StateInit /\ [][StateNext]_vars

(***************************************************************************)
(* SpecSet: State::set followed statement by statement, with the cell's    *)
(* RwLock.  set takes the write lock, stores, spawns the listener tasks    *)
(* and releases the lock when it returns.  A listener task reads the cell  *)
(* with get_cloned (the read lock is taken and released in one statement)  *)
(* and then either completes or never does.                                *)
(***************************************************************************)
\* the write guard `lock` of State::set is alive
WriteLocked == running # Idle /\ running.op = "set"

\* set up to the end of state.rs:250
SetStore(v) ==
    /\ running = Idle
    /\ calls < MaxCalls
    /\ calls' = calls + 1
    /\ state_cell' = State_store(state_cell, v)
    /\ installed' = Append(installed,
                           [value |-> v, listeners |-> Range(state_cell.listeners)])
    /\ running' = [op |-> "set", value |-> v, cause |-> Len(installed) + 1,
                   at |-> "notify", before |-> <<state_cell>>]
    /\ UNCHANGED <<focusVars, treeVars, optional_cell, vec_cell, tasks, spawned,
                   delivered, removed, held, alive, last>>

\* set at state.rs:251: self.notify().await
SetNotify ==
    /\ WriteLocked
    /\ running.at = "notify"
    /\ LET new == State_notify(state_cell, running.cause, Len(spawned))
       IN  /\ spawned' = spawned \o new
           /\ tasks' = tasks \cup Range(new)
           /\ running' = [running EXCEPT !.at = "return"]
    /\ UNCHANGED <<focusVars, treeVars, cellVars, delivered, installed, removed,
                   calls, held, alive, last>>

\* set returns and its write guard is dropped
SetReturn ==
    /\ WriteLocked
    /\ running.at = "return"
    /\ State_set_returns(tasks, delivered, running.cause)
    /\ last' = [NoCall EXCEPT !.op = "set", !.value = running.value,
                              !.before = running.before]
    /\ running' = Idle
    /\ UNCHANGED <<focusVars, treeVars, cellVars, poolVars, calls, held, alive>>

\* cell.get_cloned() by the caller
SetGet ==
    /\ running = Idle
    /\ calls < MaxCalls
    /\ calls' = calls + 1
    /\ last' = [NoCall EXCEPT !.op = "get", !.value = state_cell.data,
                              !.before = <<state_cell>>]
    /\ UNCHANGED <<focusVars, treeVars, cellVars, poolVars, restVars>>

\* cell.listen(name, closure)
SetListen(name) ==
    /\ running = Idle
    /\ StateListen(name)

\* the runtime runs a listener task: it reads the cell through event.state,
\* which waits while a write guard is alive, and then completes (done) or
\* never completes
ListenerRun(t, done) ==
    /\ t \in tasks
    /\ ~WriteLocked
    /\ tasks' = tasks \ {t}
    /\ delivered' = delivered \cup
          {[task |-> t, saw |-> CellData(t.event.cell),
            version |-> Len(installed), done |-> done]}
    /\ UNCHANGED <<focusVars, treeVars, cellVars, spawned, installed, removed,
                   calls, restVars, last>>

SetNext ==
    \/ \E name \in Names : SetListen(name)
    \/ \E v \in Values : SetStore(v)
    \/ SetNotify
    \/ SetReturn
    \/ SetGet
    \/ \E t \in tasks, done \in BOOLEAN : ListenerRun(t, done)

SpecSet == StateInit /\ [][SetNext]_vars

\* the caller is a task the runtime keeps polling: a set that can take its
\* next step takes it.  Nothing is assumed about the listener tasks.
SpecSetLive ==
    /\ SpecSet
    /\ WF_vars(SetNotify)
    /\ WF_vars(SetReturn)

(***************************************************************************)
(* SpecConc: two tasks call State::set on the same cell at the same time.  *)
(* Here running holds one call per task.  A call waits at                  *)
(* self.data.write().await until no other call holds the write guard,      *)
(* then stores, notifies and returns, dropping the guard.  The mutating    *)
(* operations of StateVec, StateMap and OptionalState have the same shape: *)
(* `let mut lock = self.data.write().await`, the change, `notify*().await` *)
(* with the guard still alive.                                             *)
(***************************************************************************)
Callers == {"t1", "t2"}

\* the call of task c holds the write guard
HoldsWrite(r, c) == r[c] # Idle /\ r[c].at \in {"store", "notify", "return"}

\* a faulty lock: write() is granted whoever holds the guard
RwLock_write_unguarded(r, c) == TRUE

\* tokio RwLock::write resolves only while no other guard is alive
RwLock_write_free(r, c) ==
    \A d \in Callers \ {c} : ~HoldsWrite(r, d)

ConcInit ==
    /\ FocusIdle
    /\ TreeIdle
    /\ CellsIdle
    /\ held = [g \in Gadgets |-> 1]
    /\ alive = [g \in Gadgets |-> TRUE]
    /\ running = [c \in Callers |-> Idle]
    /\ last = NoCall

\* cell.listen(name, closure) while no set is in progress
ConcListen(name) ==
    /\ \A c \in Callers : running[c] = Idle
    /\ StateListen(name)

\* task c calls cell.set(v) and reaches self.data.write().await
ConcCall(c, v) ==
    /\ running[c] = Idle
    /\ calls < MaxCalls
    /\ calls' = calls + 1
    /\ running' = [running EXCEPT ![c] = [op |-> "set", value |-> v, at |-> "lock",
                                          cause |-> 0]]
    /\ UNCHANGED <<focusVars, treeVars, cellVars, poolVars, held, alive, last>>

\* state.rs:249  the write guard is granted
ConcLock(c) ==
    /\ running[c] # Idle
    /\ running[c].at = "lock"
    /\ RwLock_write_free(running, c)
    /\ running' = [running EXCEPT ![c].at = "store"]
    /\ UNCHANGED <<focusVars, treeVars, cellVars, poolVars, calls, held, alive, last>>

\* state.rs:250  *lock = data
ConcStore(c) ==
    /\ running[c] # Idle
    /\ running[c].at = "store"
    /\ state_cell' = State_store(state_cell, running[c].value)
    /\ installed' = Append(installed,
                           [value |-> running[c].value,
                            listeners |-> Range(state_cell.listeners),
                            contended |-> \E d \in Callers \ {c} : running[d] # Idle])
    /\ running' = [running EXCEPT ![c].at = "notify", ![c].cause = Len(installed) + 1]
    /\ UNCHANGED <<focusVars, treeVars, optional_cell, vec_cell, tasks, spawned,
                   delivered, removed, calls, held, alive, last>>

\* state.rs:251  self.notify().await
ConcNotify(c) ==
    /\ running[c] # Idle
    /\ running[c].at = "notify"
    /\ LET new == State_notify(state_cell, running[c].cause, Len(spawned))
       IN  /\ spawned' = spawned \o new
           /\ tasks' = tasks \cup Range(new)
    /\ running' = [running EXCEPT ![c].at = "return"]
    /\ UNCHANGED <<focusVars, treeVars, cellVars, delivered, installed, removed,
                   calls, held, alive, last>>

\* set returns and its write guard is dropped
ConcReturn(c) ==
    /\ running[c] # Idle
    /\ running[c].at = "return"
    /\ running' = [running EXCEPT ![c] = Idle]
    /\ last' = [NoCall EXCEPT !.op = "set", !.value = running[c].value,
                              !.name = c]
    /\ UNCHANGED <<focusVars, treeVars, cellVars, poolVars, calls, held, alive>>

ConcNext ==
    \/ \E name \in Names : ConcListen(name)
    \/ \E c \in Callers, v \in Values : ConcCall(c, v)
    \/ \E c \in Callers : ConcLock(c)
    \/ \E c \in Callers : ConcStore(c)
    \/ \E c \in Callers : ConcNotify(c)
    \/ \E c \in Callers : ConcReturn(c)

SpecConc == ConcInit /\ [][ConcNext]_vars

(***************************************************************************)
(* SpecReenter: listener tasks that call back into the cell that notified  *)
(* them.  The application task and two runtime workers each run one call   *)
(* at a time, statement by statement.  The cell has two locks: `data`      *)
(* (written by set) and `listeners` (read by notify, written by listen and *)
(* remove_listener).                                                       *)
(***************************************************************************)
App == "app"
Workers == {"w1", "w2"}
Threads == {App} \cup Workers
CellOps == {"set", "listen", "remove_listener"}

\* the arguments of a call of op: set takes a value, the others a name
CellArgs(op) ==
    IF op = "set" THEN {[name |-> "", value |-> v] : v \in Values}
    ELSE {[name |-> n, value |-> 0] : n \in Names}

\* thread c holds the write guard of `data` (state.rs:249 to 252)
DataWrite(r, c) ==
    r[c] # Idle /\ r[c].op = "set" /\ r[c].at \in {"store", "read", "spawn"}

\* thread c holds the read guard of `listeners` (state.rs:277 to 281)
ListenersRead(r, c) ==
    r[c] # Idle /\ r[c].op = "set" /\ r[c].at = "spawn"

\* thread c holds the write guard of `listeners` (state.rs:260, 264-269)
ListenersWrite(r, c) ==
    r[c] # Idle /\ r[c].op \in {"listen", "remove_listener"} /\ r[c].at = "change"

\* the lock the call of thread c waits for can be granted
Granted(r, c) ==
    CASE r[c].at = "lock" /\ r[c].op = "set" ->
            \A d \in Threads \ {c} : ~DataWrite(r, d)
      [] r[c].at = "lock" /\ r[c].op # "set" ->
            \A d \in Threads \ {c} : ~ListenersRead(r, d) /\ ~ListenersWrite(r, d)
      [] r[c].at = "read" ->
            \A d \in Threads \ {c} : ~ListenersWrite(r, d)
      [] OTHER -> TRUE

\* the call of thread c would have to wait if it started now with op
WouldWait(r, c, op) ==
    IF op = "set" THEN \E d \in Threads \ {c} : DataWrite(r, d)
    ELSE \E d \in Threads \ {c} : ListenersRead(r, d) \/ ListenersWrite(r, d)

ReenterInit ==
    /\ FocusIdle
    /\ TreeIdle
    /\ CellsIdle
    /\ held = [g \in Gadgets |-> 1]
    /\ alive = [g \in Gadgets |-> TRUE]
    /\ running = [c \in Threads |-> Idle]
    /\ last = NoCall

\* the application calls cell.set(v) or cell.listen(name, closure)
AppCall(op, a) ==
    /\ running[App] = Idle
    /\ op \in {"set", "listen"}
    /\ calls < MaxCalls
    /\ calls' = calls + 1
    /\ running' = [running EXCEPT ![App] =
                      [op |-> op, name |-> a.name, value |-> a.value, at |-> "lock",
                       cause |-> 0, id |-> calls + 1, task |-> <<>>]]
    /\ UNCHANGED <<focusVars, treeVars, cellVars, poolVars, held, alive, last>>

\* a worker polls the listener task t, whose future calls op on the cell
\* that notified it (event.state)
TaskCall(w, t, op, a) ==
    /\ running[w] = Idle
    /\ t \in tasks
    /\ calls < MaxCalls
    /\ calls' = calls + 1
    /\ tasks' = tasks \ {t}
    /\ delivered' = delivered \cup
          {[task |-> t, saw |-> op, version |-> Len(installed), done |-> FALSE,
            waited |-> WouldWait(running, w, op)]}
    /\ running' = [running EXCEPT ![w] =
                      [op |-> op, name |-> a.name, value |-> a.value, at |-> "lock",
                       cause |-> 0, id |-> calls + 1, task |-> <<t>>]]
    /\ UNCHANGED <<focusVars, treeVars, cellVars, spawned, installed, removed,
                   held, alive, last>>

\* self.data.write().await (set) or self.listeners.write().await is granted
TakeLock(c) ==
    /\ running[c] # Idle
    /\ running[c].at = "lock"
    /\ Granted(running, c)
    /\ running' = [running EXCEPT ![c].at =
                      IF running[c].op = "set" THEN "store" ELSE "change"]
    /\ UNCHANGED <<focusVars, treeVars, cellVars, poolVars, calls, held, alive, last>>

\* state.rs:250  *lock = data
Store(c) ==
    /\ running[c] # Idle
    /\ running[c].at = "store"
    /\ state_cell' = State_store(state_cell, running[c].value)
    /\ installed' = Append(installed,
                           [value |-> running[c].value,
                            listeners |-> Range(state_cell.listeners)])
    /\ running' = [running EXCEPT ![c].at = "read", ![c].cause = Len(installed) + 1]
    /\ UNCHANGED <<focusVars, treeVars, optional_cell, vec_cell, tasks, spawned,
                   delivered, removed, calls, held, alive, last>>

\* state.rs:277  let listeners = self.listeners.read().await
TakeRead(c) ==
    /\ running[c] # Idle
    /\ running[c].at = "read"
    /\ Granted(running, c)
    /\ LET new == State_notify(state_cell, running[c].cause, Len(spawned))
       IN  /\ spawned' = spawned \o new
           /\ tasks' = tasks \cup Range(new)
    /\ running' = [running EXCEPT ![c].at = "spawn"]
    /\ UNCHANGED <<focusVars, treeVars, cellVars, delivered, installed, removed,
                   calls, held, alive, last>>

\* the call of thread c is over
Finished(c) ==
    IF running[c].task = <<>> THEN delivered
    ELSE {IF d.task = running[c].task[1] THEN [d EXCEPT !.done = TRUE] ELSE d :
             d \in delivered}

\* notify and set return: both guards are dropped
SetDone(c) ==
    /\ running[c] # Idle
    /\ running[c].at = "spawn"
    /\ State_set_returns(tasks, delivered, running[c].cause)
    /\ delivered' = Finished(c)
    /\ running' = [running EXCEPT ![c] = Idle]
    /\ UNCHANGED <<focusVars, treeVars, cellVars, tasks, spawned, installed,
                   removed, calls, held, alive, last>>

\* listen pushes the closure, remove_listener removes by name; the write
\* guard is dropped when the call returns
Change(c) ==
    /\ running[c] # Idle
    /\ running[c].at = "change"
    /\ state_cell' =
          IF running[c].op = "listen"
          THEN State_listen(state_cell, running[c].name,
                            Closure(running[c].id, running[c].name))
          ELSE State_remove_listener(state_cell, running[c].name)
    /\ delivered' = Finished(c)
    /\ running' = [running EXCEPT ![c] = Idle]
    /\ UNCHANGED <<focusVars, treeVars, optional_cell, vec_cell, tasks, spawned,
                   installed, removed, calls, held, alive, last>>

ReenterNext ==
    \/ \E op \in CellOps : \E a \in CellArgs(op) : AppCall(op, a)
    \/ \E w \in Workers, t \in tasks, op \in CellOps :
          \E a \in CellArgs(op) : TaskCall(w, t, op, a)
    \/ \E c \in Threads : TakeLock(c)
    \/ \E c \in Threads : Store(c)
    \/ \E c \in Threads : TakeRead(c)
    \/ \E c \in Threads : SetDone(c)
    \/ \E c \in Threads : Change(c)

SpecReenter == ReenterInit /\ [][ReenterNext]_vars

\* every thread is a task the runtime keeps polling, and a tokio RwLock
\* wakes its waiters when the guard is dropped: a call that can take its
\* next step takes it.  Nothing is assumed about when a call starts.
SpecReenterLive ==
    /\ SpecReenter
    /\ \A c \in Threads :
          /\ WF_vars(TakeLock(c))
          /\ WF_vars(Store(c))
          /\ WF_vars(TakeRead(c))
          /\ WF_vars(SetDone(c))
          /\ WF_vars(Change(c))

(***************************************************************************)
(* SpecKeys: the window's key_down list with the "cb_focus" listener that  *)
(* Window::new attaches (attach_tab_listener).  Here vec_cell holds one    *)
(* key_down list per gadget and one for the window.  A key press pushes    *)
(* the key into the window's list; the listener task runs later.           *)
(***************************************************************************)
MaxKeys == 3
Tab == "Tab"
Keys == {Tab, "A", "B"}
KeyLists == Gadgets \cup {WindowParent}

\* a faulty listener: Tab is forwarded like any other key
cb_focus_forwards_all(t, lists, key, base) ==
    IF GadgetRef_get(t.focused) = NoGadget
    THEN [tracker |-> t, lists |-> lists, new |-> <<>>, cycled |-> FALSE]
    ELSE LET r == Vec_push(lists[t.focused], key, base)
         IN  [tracker |-> t, lists |-> [lists EXCEPT ![t.focused] = r.cell],
              new |-> r.new, cycled |-> FALSE]

\* focus.rs:44-56  the future of the window's key_down on_add listener
cb_focus_on_add(t, lists, key, base) ==
    IF key = Tab
    THEN [tracker |-> cycle(t), lists |-> lists, new |-> <<>>, cycled |-> TRUE]
    ELSE IF t.focused = NoGadget
    THEN [tracker |-> t, lists |-> lists, new |-> <<>>, cycled |-> FALSE]
    ELSE IF GadgetRef_get(t.focused) = NoGadget
    THEN [tracker |-> t, lists |-> lists, new |-> <<>>, cycled |-> FALSE]
    ELSE LET r == Vec_push(lists[t.focused], key, base)
         IN  [tracker |-> t, lists |-> [lists EXCEPT ![t.focused] = r.cell],
              new |-> r.new, cycled |-> FALSE]

NoKey ==
    [op |-> "init", key |-> "", focused |-> NoGadget, gfocused |-> AllFalse,
     before |-> <<>>, cycled |-> FALSE]

KeysInit ==
    /\ focused = NoGadget
    /\ \E order \in NoDupSeqs(Leaves), some \in BOOLEAN :
          manual_order = [some |-> some, order |-> IF some THEN order ELSE <<>>]
    /\ \E t \in SetupTrees(MaxSetup) :
          /\ parent = t.parent
          /\ children = t.children
    /\ propagate = AllTrue
    /\ accept_focus \in {f \in [Gadgets -> BOOLEAN] : ~f[Root]}
    /\ lock_focus = AllFalse
    /\ gadget_focused = AllFalse
    /\ state_cell = StateNew(0)
    /\ optional_cell = OptionalNew(None)
    /\ vec_cell = [n \in KeyLists |->
                      IF n = WindowParent
                      THEN Vec_listen_add(VecNew, "cb_focus", Closure(0, "cb_focus"))
                      ELSE VecNew]
    /\ tasks = {}
    /\ spawned = <<>>
    /\ delivered = {}
    /\ installed = <<>>
    /\ removed = {}
    /\ calls = 0
    /\ RestIdle
    /\ last = NoKey

\* the backend reports a key press: window.key_down.push(key)
KeyPress(key) ==
    /\ calls < MaxKeys
    /\ calls' = calls + 1
    /\ LET r == Vec_push(vec_cell[WindowParent], key, Len(spawned))
       IN  /\ vec_cell' = [vec_cell EXCEPT ![WindowParent] = r.cell]
           /\ spawned' = spawned \o r.new
           /\ tasks' = tasks \cup Range(r.new)
    /\ last' = [NoKey EXCEPT !.op = "press", !.key = key, !.focused = focused]
    /\ UNCHANGED <<focusVars, treeVars, state_cell, optional_cell, delivered,
                   installed, removed, restVars>>

\* the runtime runs the listener task t spawned for a key press
KeyTask(t) ==
    /\ t \in tasks
    /\ LET r == cb_focus_on_add(Tracker(focused, gadget_focused), vec_cell,
                                t.event.new_value, Len(spawned))
       IN  /\ focused' = r.tracker.focused
           /\ gadget_focused' = r.tracker.gfocused
           /\ vec_cell' = r.lists
           /\ spawned' = spawned \o r.new
           /\ tasks' = (tasks \ {t}) \cup Range(r.new)
           /\ last' = [op |-> "task", key |-> t.event.new_value,
                       focused |-> focused, gfocused |-> gadget_focused,
                       before |-> <<vec_cell>>, cycled |-> r.cycled]
    /\ delivered' = delivered \cup {t}
    /\ UNCHANGED <<manual_order, propagate, accept_focus, lock_focus, treeVars,
                   state_cell, optional_cell, installed, removed, calls, restVars>>

KeysNext ==
    \/ \E key \in Keys : KeyPress(key)
    \/ \E t \in tasks : KeyTask(t)

SpecKeys == KeysInit /\ [][KeysNext]_vars

(***************************************************************************)
(* SpecHold: key presses and releases.  As in SpecKeys, vec_cell holds one *)
(* key_down list per gadget and one for the window; the window's list has  *)
(* both "cb_focus" listeners of attach_tab_listener, for added and for      *)
(* removed keys.  The tree is R with the focusable children X and Y, and    *)
(* the focus is on nothing or, after an earlier cycle(), on X.              *)
(***************************************************************************)
\* focus.rs:61-79  the future of the window's key_down on_remove listener
cb_focus_on_remove(t, lists, key, base) ==
    IF key = Tab
    THEN [tracker |-> t, lists |-> lists, new |-> <<>>, cycled |-> FALSE]
    ELSE IF t.focused = NoGadget
    THEN [tracker |-> t, lists |-> lists, new |-> <<>>, cycled |-> FALSE]
    ELSE IF GadgetRef_get(t.focused) = NoGadget
    THEN [tracker |-> t, lists |-> lists, new |-> <<>>, cycled |-> FALSE]
    ELSE LET r == Vec_remove(lists[t.focused], key, base)
         IN  [tracker |-> t, lists |-> [lists EXCEPT ![t.focused] = r.cell],
              new |-> r.new, cycled |-> FALSE]

\* focus.rs:37-80  attach_tab_listener: both listeners on window.key_down
attach_tab_listener(c) ==
    Vec_listen_remove(Vec_listen_add(c, "cb_focus", Closure(0, "cb_focus")),
                      "cb_focus", Closure(1, "cb_focus"))

HoldInit ==
    /\ \E f \in {NoGadget, "X"} :
          /\ focused = f
          /\ gadget_focused = [g \in Gadgets |-> g = f]
    /\ manual_order = [some |-> FALSE, order |-> <<>>]
    /\ LET t == add_child(add_child(BareTree, Root, "X"), Root, "Y")
       IN  /\ parent = t.parent
           /\ children = t.children
    /\ propagate = AllTrue
    /\ accept_focus = [g \in Gadgets |-> g # Root]
    /\ lock_focus = AllFalse
    /\ state_cell = StateNew(0)
    /\ optional_cell = OptionalNew(None)
    /\ vec_cell = [n \in KeyLists |->
                      IF n = WindowParent THEN attach_tab_listener(VecNew)
                      ELSE VecNew]
    /\ tasks = {}
    /\ spawned = <<>>
    /\ delivered = {}
    /\ installed = <<>>
    /\ removed = {}
    /\ calls = 0
    /\ RestIdle
    /\ last = NoKey

\* the backend reports a key release: window.key_down.remove(&key)
KeyRelease(key) ==
    /\ calls < MaxKeys
    /\ calls' = calls + 1
    /\ LET r == Vec_remove(vec_cell[WindowParent], key, Len(spawned))
       IN  /\ vec_cell' = [vec_cell EXCEPT ![WindowParent] = r.cell]
           /\ spawned' = spawned \o r.new
           /\ tasks' = tasks \cup Range(r.new)
    /\ last' = [NoKey EXCEPT !.op = "release", !.key = key, !.focused = focused]
    /\ UNCHANGED <<focusVars, treeVars, state_cell, optional_cell, delivered,
                   installed, removed, restVars>>

\* the runtime runs the listener task t spawned for a press or a release
HoldTask(t) ==
    /\ t \in tasks
    /\ LET tracker == Tracker(focused, gadget_focused)
           r == IF t.event.kind = "add"
                THEN cb_focus_on_add(tracker, vec_cell, t.event.new_value,
                                     Len(spawned))
                ELSE cb_focus_on_remove(tracker, vec_cell, t.event.old_value,
                                        Len(spawned))
       IN  /\ focused' = r.tracker.focused
           /\ gadget_focused' = r.tracker.gfocused
           /\ vec_cell' = r.lists
           /\ spawned' = spawned \o r.new
           /\ tasks' = (tasks \ {t}) \cup Range(r.new)
           /\ last' = [op |-> "task",
                       key |-> IF t.event.kind = "add" THEN t.event.new_value
                               ELSE t.event.old_value,
                       focused |-> focused, gfocused |-> gadget_focused,
                       before |-> <<vec_cell>>, cycled |-> r.cycled]
    /\ delivered' = delivered \cup {t}
    /\ UNCHANGED <<manual_order, propagate, accept_focus, lock_focus, treeVars,
                   state_cell, optional_cell, installed, removed, calls, restVars>>

HoldNext ==
    \/ \E key \in Keys : KeyPress(key)
    \/ \E key \in Keys : KeyRelease(key)
    \/ \E t \in tasks : HoldTask(t)

SpecHold == HoldInit /\ [][HoldNext]_vars

(***************************************************************************)
(* SpecVec: one StateVec<T> cell with listeners for add and remove events. *)
(***************************************************************************)
\* what a mutating call leaves behind: the pool and the history
Called(op, name, value, index, before, r) ==
    /\ calls' = calls + 1
    /\ spawned' = spawned \o r.new
    /\ tasks' = tasks \cup Range(r.new)
    /\ last' = [op |-> op, name |-> name, value |-> value, index |-> index,
                before |-> <<before>>, events |-> r.events, new |-> r.new,
                outcome |-> r.outcome]

\* cell.listen_add(name, closure)
VecListenAdd(name) ==
    /\ calls < MaxCalls
    /\ vec_cell' = Vec_listen_add(vec_cell, name, Closure(calls + 1, name))
    /\ Called("listen_add", name, 0, 0, vec_cell, Done(vec_cell, <<>>, <<>>))
    /\ UNCHANGED <<focusVars, treeVars, restVars, state_cell, optional_cell,
                   delivered, installed, removed>>

\* cell.listen_remove(name, closure)
VecListenRemove(name) ==
    /\ calls < MaxCalls
    /\ vec_cell' = Vec_listen_remove(vec_cell, name, Closure(calls + 1, name))
    /\ Called("listen_remove", name, 0, 0, vec_cell, Done(vec_cell, <<>>, <<>>))
    /\ UNCHANGED <<focusVars, treeVars, restVars, state_cell, optional_cell,
                   delivered, installed, removed>>

\* cell.remove_listener_add(name)
VecRemoveListenerAdd(name) ==
    /\ calls < MaxCalls
    /\ vec_cell' = Vec_remove_listener_add(vec_cell, name)
    /\ Called("remove_listener_add", name, 0, 0, vec_cell, Done(vec_cell, <<>>, <<>>))
    /\ UNCHANGED <<focusVars, treeVars, restVars, state_cell, optional_cell,
                   delivered, installed, removed>>

\* cell.remove_listener_remove(name)
VecRemoveListenerRemove(name) ==
    /\ calls < MaxCalls
    /\ vec_cell' = Vec_remove_listener_remove(vec_cell, name)
    /\ Called("remove_listener_remove", name, 0, 0, vec_cell, Done(vec_cell, <<>>, <<>>))
    /\ UNCHANGED <<focusVars, treeVars, restVars, state_cell, optional_cell,
                   delivered, installed, removed>>

\* cell.push(v)
VecPush(v) ==
    /\ calls < MaxCalls
    /\ LET r == Vec_push(vec_cell, v, Len(spawned))
       IN  /\ vec_cell' = r.cell
           /\ Called("push", "", v, 0, vec_cell, r)
    /\ UNCHANGED <<focusVars, treeVars, restVars, state_cell, optional_cell,
                   delivered, installed, removed>>

\* cell.remove_at(index)
VecRemoveAt(index) ==
    /\ calls < MaxCalls
    /\ LET r == Vec_remove_at(vec_cell, index, Len(spawned))
       IN  /\ vec_cell' = r.cell
           /\ Called("remove_at", "", 0, index, vec_cell, r)
    /\ UNCHANGED <<focusVars, treeVars, restVars, state_cell, optional_cell,
                   delivered, installed, removed>>

\* cell.remove(&v)
VecRemove(v) ==
    /\ calls < MaxCalls
    /\ LET r == Vec_remove(vec_cell, v, Len(spawned))
       IN  /\ vec_cell' = r.cell
           /\ Called("remove", "", v, 0, vec_cell, r)
    /\ UNCHANGED <<focusVars, treeVars, restVars, state_cell, optional_cell,
                   delivered, installed, removed>>

\* cell.pop()
VecPop ==
    /\ calls < MaxCalls
    /\ LET r == Vec_pop(vec_cell, Len(spawned))
       IN  /\ vec_cell' = r.cell
           /\ Called("pop", "", 0, 0, vec_cell, r)
    /\ UNCHANGED <<focusVars, treeVars, restVars, state_cell, optional_cell,
                   delivered, installed, removed>>

\* cell.clear()
VecClear ==
    /\ calls < MaxCalls
    /\ LET r == Vec_clear(vec_cell, Len(spawned))
       IN  /\ vec_cell' = r.cell
           /\ Called("clear", "", 0, 0, vec_cell, r)
    /\ UNCHANGED <<focusVars, treeVars, restVars, state_cell, optional_cell,
                   delivered, installed, removed>>

\* Layout::remove_child(parent, v) with vec_cell the parent's children cell
\* and state_cell the parent cell of v (0 stands for GadgetParent::None; no
\* listener is registered on it here, so its set spawns nothing)
VecRemoveChild(v) ==
    /\ calls < MaxCalls
    /\ LET s == State_set(state_cell, 0, Len(installed) + 1, Len(spawned))
           r == Vec_retain_out(vec_cell, v)
       IN  /\ state_cell' = s.cell
           /\ vec_cell' = r.cell
           /\ Called("remove_child", "", v, 0, vec_cell,
                     Done(r.cell, s.events \o r.events, s.new \o r.new))
    /\ UNCHANGED <<focusVars, treeVars, restVars, optional_cell,
                   delivered, installed, removed>>

VecNext ==
    \/ \E name \in Names : VecListenAdd(name)
    \/ \E name \in Names : VecListenRemove(name)
    \/ \E name \in Names : VecRemoveListenerAdd(name)
    \/ \E name \in Names : VecRemoveListenerRemove(name)
    \/ \E v \in Values : VecPush(v)
    \/ \E index \in 0..Len(vec_cell.data) : VecRemoveAt(index)
    \/ \E v \in Values : VecRemove(v)
    \/ VecPop
    \/ VecClear
    \/ \E v \in Values : VecRemoveChild(v)
    \/ \E t \in tasks : RunTask(t)

SpecVec == StateInit /\ [][VecNext]_vars

(***************************************************************************)
(* SpecOptional: one OptionalState<T> cell with listeners for its three    *)
(* kinds of event.                                                         *)
(***************************************************************************)
\* cell.listen_set(name, closure)
OptListenSet(name) ==
    /\ calls < MaxCalls
    /\ optional_cell' = Opt_listen_set(optional_cell, name, Closure(calls + 1, name))
    /\ Called("listen_set", name, 0, 0, optional_cell, Done(optional_cell, <<>>, <<>>))
    /\ UNCHANGED <<focusVars, treeVars, restVars, state_cell, vec_cell,
                   delivered, installed, removed>>

\* cell.listen_unset(name, closure)
OptListenUnset(name) ==
    /\ calls < MaxCalls
    /\ optional_cell' = Opt_listen_unset(optional_cell, name, Closure(calls + 1, name))
    /\ Called("listen_unset", name, 0, 0, optional_cell, Done(optional_cell, <<>>, <<>>))
    /\ UNCHANGED <<focusVars, treeVars, restVars, state_cell, vec_cell,
                   delivered, installed, removed>>

\* cell.listen_change(name, closure)
OptListenChange(name) ==
    /\ calls < MaxCalls
    /\ optional_cell' = Opt_listen_change(optional_cell, name, Closure(calls + 1, name))
    /\ Called("listen_change", name, 0, 0, optional_cell, Done(optional_cell, <<>>, <<>>))
    /\ UNCHANGED <<focusVars, treeVars, restVars, state_cell, vec_cell,
                   delivered, installed, removed>>

\* cell.put(v)
OptPut(v) ==
    /\ calls < MaxCalls
    /\ LET r == Opt_put(optional_cell, v, Len(spawned))
       IN  /\ optional_cell' = r.cell
           /\ Called("put", "", Some(v), 0, optional_cell, r)
    /\ UNCHANGED <<focusVars, treeVars, restVars, state_cell, vec_cell,
                   delivered, installed, removed>>

\* cell.take()
OptTake ==
    /\ calls < MaxCalls
    /\ LET r == Opt_take(optional_cell, Len(spawned))
       IN  /\ optional_cell' = r.cell
           /\ Called("take", "", None, 0, optional_cell, r)
    /\ UNCHANGED <<focusVars, treeVars, restVars, state_cell, vec_cell,
                   delivered, installed, removed>>

\* cell.set(d)
OptSet(d) ==
    /\ calls < MaxCalls
    /\ LET r == Opt_set(optional_cell, d, Len(spawned))
       IN  /\ optional_cell' = r.cell
           /\ Called("set", "", d, 0, optional_cell, r)
    /\ UNCHANGED <<focusVars, treeVars, restVars, state_cell, vec_cell,
                   delivered, installed, removed>>

\* cell.remove_listener_set(name)
OptRemoveListenerSet(name) ==
    /\ calls < MaxCalls
    /\ LET r == Opt_remove_listener_set(optional_cell, name)
       IN  /\ optional_cell' = r.cell
           /\ Called("remove_listener_set", name, 0, 0, optional_cell, r)
    /\ UNCHANGED <<focusVars, treeVars, restVars, state_cell, vec_cell,
                   delivered, installed, removed>>

\* cell.remove_listener_unset(name)
OptRemoveListenerUnset(name) ==
    /\ calls < MaxCalls
    /\ LET r == Opt_remove_listener_unset(optional_cell, name)
       IN  /\ optional_cell' = r.cell
           /\ Called("remove_listener_unset", name, 0, 0, optional_cell, r)
    /\ UNCHANGED <<focusVars, treeVars, restVars, state_cell, vec_cell,
                   delivered, installed, removed>>

\* cell.remove_listener_change(name)
OptRemoveListenerChange(name) ==
    /\ calls < MaxCalls
    /\ LET r == Opt_remove_listener_change(optional_cell, name)
       IN  /\ optional_cell' = r.cell
           /\ Called("remove_listener_change", name, 0, 0, optional_cell, r)
    /\ UNCHANGED <<focusVars, treeVars, restVars, state_cell, vec_cell,
                   delivered, installed, removed>>

OptionalNext ==
    \/ \E name \in Names : OptListenSet(name)
    \/ \E name \in Names : OptListenUnset(name)
    \/ \E name \in Names : OptListenChange(name)
    \/ \E name \in Names : OptRemoveListenerSet(name)
    \/ \E name \in Names : OptRemoveListenerUnset(name)
    \/ \E name \in Names : OptRemoveListenerChange(name)
    \/ \E v \in Values : OptPut(v)
    \/ OptTake
    \/ \E d \in {None} \cup {Some(v) : v \in Values} : OptSet(d)
    \/ \E t \in tasks : RunTask(t)

SpecOptional == StateInit /\ [][OptionalNext]_vars

(***************************************************************************)
(* SpecTree: the gadget tree under Layout::add_child and                   *)
(* Layout::remove_child, called by the application with any two gadgets.   *)
(***************************************************************************)
NoTreeCall ==
    [op |-> "init", p |-> NoGadget, c |-> NoGadget,
     before |-> [parent |-> BareTree.parent, children |-> BareTree.children]]

TreeInit ==
    /\ FocusIdle
    /\ TreeIdle
    /\ CellsIdle
    /\ RestIdle
    /\ last = NoTreeCall

\* Layout::add_child(p, c)
AddChild(p, c) ==
    /\ calls < MaxCalls
    /\ calls' = calls + 1
    /\ LET before == [parent |-> parent, children |-> children]
           after  == add_child(before, p, c)
       IN  /\ parent' = after.parent
           /\ children' = after.children
           /\ last' = [op |-> "add_child", p |-> p, c |-> c, before |-> before]
    /\ UNCHANGED <<focusVars, cellVars, poolVars, restVars>>

\* Layout::remove_child(p, c)
RemoveChild(p, c) ==
    /\ calls < MaxCalls
    /\ calls' = calls + 1
    /\ LET before == [parent |-> parent, children |-> children]
           after  == remove_child(before, p, c)
       IN  /\ parent' = after.parent
           /\ children' = after.children
           /\ last' = [op |-> "remove_child", p |-> p, c |-> c, before |-> before]
    /\ UNCHANGED <<focusVars, cellVars, poolVars, restVars>>

\* the application passes two different gadgets
TreeNext ==
    \/ \E p \in Gadgets : \E c \in Gadgets \ {p} : AddChild(p, c)
    \/ \E p \in Gadgets : \E c \in Gadgets \ {p} : RemoveChild(p, c)

SpecTree == TreeInit /\ [][TreeNext]_vars

(***************************************************************************)
(* SpecFocusTree: cycle() calls, one after the other, between changes of   *)
(* the flags and of the tree.  The tree starts bare and is built and       *)
(* changed with add_child / remove_child, well formed or not.  A call that *)
(* would never return is left out: no later call could follow it.          *)
(***************************************************************************)
MaxTreeOps == 2

FocusTreeInit ==
    /\ focused = NoGadget
    /\ manual_order \in {[some |-> FALSE, order |-> <<>>],
                         [some |-> TRUE, order |-> <<"X", "Y">>]}
    /\ TreeIdle
    /\ propagate = AllTrue
    /\ accept_focus = AllFalse
    /\ lock_focus = AllFalse
    /\ gadget_focused = AllFalse
    /\ CellsIdle
    /\ RestIdle
    /\ last = [NoCycle EXCEPT !.op = "init"]

\* focus.cycle().await, returning or panicking
CompleteCycle ==
    /\ cycle(Tracker(focused, gadget_focused)).outcome # Diverged
    /\ Cycle

\* Layout::add_child(p, c) between two cycle() calls
FocusAddChild(p, c) ==
    /\ calls < MaxTreeOps
    /\ calls' = calls + 1
    /\ LET after == add_child([parent |-> parent, children |-> children], p, c)
       IN  /\ parent' = after.parent
           /\ children' = after.children
    /\ last' = NoCycle
    /\ UNCHANGED <<focusVars, cellVars, poolVars, restVars>>

\* Layout::remove_child(p, c) between two cycle() calls
FocusRemoveChild(p, c) ==
    /\ calls < MaxTreeOps
    /\ calls' = calls + 1
    /\ LET after == remove_child([parent |-> parent, children |-> children], p, c)
       IN  /\ parent' = after.parent
           /\ children' = after.children
    /\ last' = NoCycle
    /\ UNCHANGED <<focusVars, cellVars, poolVars, restVars>>

FocusTreeNext ==
    \/ CompleteCycle
    \/ \E g \in Leaves, b \in BOOLEAN : SetPropagate(g, b)
    \/ \E g \in Leaves, b \in BOOLEAN : SetAcceptFocus(g, b)
    \/ \E g \in Leaves, b \in BOOLEAN : SetLockFocus(g, b)
    \/ \E p \in Gadgets : \E c \in Gadgets \ {p} : FocusAddChild(p, c)
    \/ \E p \in Gadgets : \E c \in Gadgets \ {p} : FocusRemoveChild(p, c)

SpecFocusTree == FocusTreeInit /\ [][FocusTreeNext]_vars

\* SpecFocusAny: as SpecFocusTree, with every cycle() call, also one that
\* never returns (what it wrote before it hung stays written)
FocusAnyNext ==
    \/ Cycle
    \/ \E g \in Leaves, b \in BOOLEAN : SetPropagate(g, b)
    \/ \E g \in Leaves, b \in BOOLEAN : SetAcceptFocus(g, b)
    \/ \E g \in Leaves, b \in BOOLEAN : SetLockFocus(g, b)
    \/ \E p \in Gadgets : \E c \in Gadgets \ {p} : FocusAddChild(p, c)
    \/ \E p \in Gadgets : \E c \in Gadgets \ {p} : FocusRemoveChild(p, c)

SpecFocusAny == FocusTreeInit /\ [][FocusAnyNext]_vars

(***************************************************************************)
(* SpecTwoCycles: two tasks run cycle() on the same tracker (two Tab       *)
(* presses spawn two listener tasks), automatic mode, followed await by    *)
(* await.  cycle() holds no lock across its awaits: each cell operation    *)
(* locks only its own cell.  The tree and the flags do not change, so the  *)
(* search between the awaits is one step.                                  *)
(***************************************************************************)
CycleTasks == {"t1", "t2"}

TwoCyclesInit ==
    /\ focused = NoGadget
    /\ manual_order = [some |-> FALSE, order |-> <<>>]
    /\ \E t \in SetupTrees(MaxSetup) :
          /\ parent = t.parent
          /\ children = t.children
    /\ propagate = AllTrue
    /\ accept_focus \in {f \in [Gadgets -> BOOLEAN] : ~f[Root]}
    /\ lock_focus = AllFalse
    /\ gadget_focused = AllFalse
    /\ CellsIdle
    /\ held = [g \in Gadgets |-> 1]
    /\ alive = [g \in Gadgets |-> TRUE]
    /\ running = [c \in CycleTasks |-> Idle]
    /\ last = [NoCycle EXCEPT !.op = "init"]

At(c, at) == running[c] # Idle /\ running[c].at = at

\* a listener task starts focus.cycle()
CycleCall(c) ==
    /\ running[c] = Idle
    /\ calls < MaxCalls
    /\ calls' = calls + 1
    /\ running' = [running EXCEPT ![c] =
                      [op |-> "cycle", at |-> "get", holder |-> NoGadget,
                       next |-> NoGadget]]
    /\ UNCHANGED <<focusVars, treeVars, cellVars, poolVars, held, alive, last>>

\* focus.rs:147-154  self.focused.get().await, gr.get(), lock_focus
CycleGet(c) ==
    /\ At(c, "get")
    /\ LET holder == GadgetRef_get(focused)
       IN  running' = [running EXCEPT ![c] =
              IF holder = NoGadget THEN [@ EXCEPT !.at = "search"]
              ELSE IF lock_focus[holder] THEN Idle
              ELSE [@ EXCEPT !.at = "take", !.holder = holder]]
    /\ UNCHANGED <<focusVars, treeVars, cellVars, poolVars, calls, held, alive, last>>

\* focus.rs:93  self.focused.take().await in clear_focus
CycleTake(c) ==
    /\ At(c, "take")
    /\ focused' = NoGadget
    /\ running' = [running EXCEPT ![c].at =
                      IF GadgetRef_get(focused) = NoGadget THEN "search" ELSE "unset",
                                   ![c].next = focused]
    /\ UNCHANGED <<manual_order, propagate, accept_focus, lock_focus, gadget_focused,
                   treeVars, cellVars, poolVars, calls, held, alive, last>>

\* focus.rs:102  gadget.focused.set(false).await in clear_focus
CycleUnset(c) ==
    /\ At(c, "unset")
    /\ gadget_focused' = [gadget_focused EXCEPT ![running[c].next] = FALSE]
    /\ running' = [running EXCEPT ![c].at = "search", ![c].next = NoGadget]
    /\ UNCHANGED <<focused, manual_order, propagate, accept_focus, lock_focus,
                   treeVars, cellVars, poolVars, calls, held, alive, last>>

\* focus.rs:160-198  the search from the root or up from the old holder
CycleSearch(c) ==
    /\ At(c, "search")
    /\ LET t == Tracker(NoGadget, gadget_focused)
           r == IF running[c].holder = NoGadget THEN auto_from_root(t)
                ELSE auto_walk(t, running[c].holder, MaxSteps)
       IN  running' = [running EXCEPT ![c] =
              IF r.outcome # Returned \/ r.focused = NoGadget THEN Idle
              ELSE [@ EXCEPT !.at = "put", !.next = r.focused]]
    /\ UNCHANGED <<focusVars, treeVars, cellVars, poolVars, calls, held, alive, last>>

\* self.focused.put(next.refer()).await
CyclePut(c) ==
    /\ At(c, "put")
    /\ focused' = running[c].next
    /\ running' = [running EXCEPT ![c].at = "set"]
    /\ UNCHANGED <<manual_order, propagate, accept_focus, lock_focus, gadget_focused,
                   treeVars, cellVars, poolVars, calls, held, alive, last>>

\* next.focused.set(true).await, and cycle returns
CycleSet(c) ==
    /\ At(c, "set")
    /\ gadget_focused' = [gadget_focused EXCEPT ![running[c].next] = TRUE]
    /\ running' = [running EXCEPT ![c] = Idle]
    /\ UNCHANGED <<focused, manual_order, propagate, accept_focus, lock_focus,
                   treeVars, cellVars, poolVars, calls, held, alive, last>>

TwoCyclesNext ==
    \/ \E c \in CycleTasks : CycleCall(c)
    \/ \E c \in CycleTasks : CycleGet(c)
    \/ \E c \in CycleTasks : CycleTake(c)
    \/ \E c \in CycleTasks : CycleUnset(c)
    \/ \E c \in CycleTasks : CycleSearch(c)
    \/ \E c \in CycleTasks : CyclePut(c)
    \/ \E c \in CycleTasks : CycleSet(c)

SpecTwoCycles == TwoCyclesInit /\ [][TwoCyclesNext]_vars

(***************************************************************************)
(* SpecPair: two tasks register and remove on_add listeners of one         *)
(* StateVec, followed statement by statement.  listen_add is two           *)
(* statements, each taking and dropping its own write guard;               *)
(* remove_listener_add holds both guards for its whole body.  The listen   *)
(* and remove_listener functions of OptionalState and StateMap are written *)
(* the same way.                                                           *)
(***************************************************************************)
PairInit ==
    /\ FocusIdle
    /\ TreeIdle
    /\ CellsIdle
    /\ held = [g \in Gadgets |-> 1]
    /\ alive = [g \in Gadgets |-> TRUE]
    /\ running = [c \in Callers |-> Idle]
    /\ last = NoCall

\* task c calls cell.listen_add(name, closure)
PairListen(c, name) ==
    /\ running[c] = Idle
    /\ calls < MaxCalls
    /\ calls' = calls + 1
    /\ running' = [running EXCEPT ![c] =
                      [op |-> "listen_add", name |-> name, at |-> "closure",
                       id |-> calls + 1]]
    /\ UNCHANGED <<focusVars, treeVars, cellVars, poolVars, held, alive, last>>

\* state.rs:729  self.on_add.write().await.push(Box::new(listener))
PairPushClosure(c) ==
    /\ At(c, "closure")
    /\ vec_cell' = [vec_cell EXCEPT
                      !.on_add = Append(@, Closure(running[c].id, running[c].name))]
    /\ running' = [running EXCEPT ![c].at = "name"]
    /\ UNCHANGED <<focusVars, treeVars, state_cell, optional_cell, poolVars, calls,
                   held, alive, last>>

\* state.rs:730  self.id_add.write().await.push(name)
PairPushName(c) ==
    /\ At(c, "name")
    /\ vec_cell' = [vec_cell EXCEPT !.id_add = Append(@, running[c].name)]
    /\ running' = [running EXCEPT ![c] = Idle]
    /\ UNCHANGED <<focusVars, treeVars, state_cell, optional_cell, poolVars, calls,
                   held, alive, last>>

\* task c calls cell.remove_listener_add(name)
PairRemove(c, name) ==
    /\ running[c] = Idle
    /\ calls < MaxCalls
    /\ calls' = calls + 1
    /\ vec_cell' = Vec_remove_listener_add(vec_cell, name)
    /\ UNCHANGED <<focusVars, treeVars, state_cell, optional_cell, poolVars,
                   restVars, last>>

PairNext ==
    \/ \E c \in Callers, name \in Names : PairListen(c, name)
    \/ \E c \in Callers : PairPushClosure(c)
    \/ \E c \in Callers : PairPushName(c)
    \/ \E c \in Callers, name \in Names : PairRemove(c, name)

SpecPair == PairInit /\ [][PairNext]_vars

(***************************************************************************)
(* SpecHandles: one OptionalState<T> reached through two handles, the       *)
(* original and a clone of it (the `state` handle of an event is such a     *)
(* clone).  optional_cell is here a function from handle to what that       *)
(* handle sees: data and the three listener lists are behind Arcs that      *)
(* Clone copies, so every handle sees the same ones; the three name lists   *)
(* are made anew by Clone, so every handle has its own.                     *)
(***************************************************************************)
Handles == {"original", "clone"}

ListenerKinds == {"set", "unset", "change"}

\* impl Clone for OptionalState
OptionalState_clone(c) ==
    [c EXCEPT !.id_set = <<>>, !.id_unset = <<>>, !.id_change = <<>>]

\* what a handle sees after a call through another handle left the cell as
\* c: the shared fields of c, and the handle's own name lists
SeenThrough(c, own) ==
    [c EXCEPT !.id_set = own.id_set, !.id_unset = own.id_unset,
              !.id_change = own.id_change]

\* the handles after a call through handle h left its view as c
AfterCall(h, c) ==
    [k \in Handles |-> IF k = h THEN c ELSE SeenThrough(c, optional_cell[k])]

\* let cell = OptionalState::new(gadget, None); let other = cell.clone();
HandlesInit ==
    /\ FocusIdle
    /\ TreeIdle
    /\ state_cell = StateNew(0)
    /\ optional_cell = [h \in Handles |->
                           IF h = "original" THEN OptionalNew(None)
                           ELSE OptionalState_clone(OptionalNew(None))]
    /\ vec_cell = VecNew
    /\ tasks = {}
    /\ spawned = <<>>
    /\ delivered = {}
    /\ installed = <<>>
    /\ removed = {}
    /\ calls = 0
    /\ RestIdle
    /\ last = NoCall

\* handle.listen_set / listen_unset / listen_change (name, closure); the
\* handle used is recorded in last.value
HandleListen(h, kind, name) ==
    /\ calls < MaxCalls
    /\ LET c == optional_cell[h]
           closure == Closure(calls + 1, name)
           after == CASE kind = "set" -> Opt_listen_set(c, name, closure)
                      [] kind = "unset" -> Opt_listen_unset(c, name, closure)
                      [] kind = "change" -> Opt_listen_change(c, name, closure)
       IN  /\ optional_cell' = AfterCall(h, after)
           /\ Called("listen_" \o kind, name, h, 0, optional_cell,
                     Done(after, <<>>, <<>>))
    /\ UNCHANGED <<focusVars, treeVars, restVars, state_cell, vec_cell,
                   delivered, installed, removed>>

\* handle.remove_listener_set / _unset / _change (name)
HandleRemoveListener(h, kind, name) ==
    /\ calls < MaxCalls
    /\ LET c == optional_cell[h]
           r == CASE kind = "set" -> Opt_remove_listener_set(c, name)
                  [] kind = "unset" -> Opt_remove_listener_unset(c, name)
                  [] kind = "change" -> Opt_remove_listener_change(c, name)
       IN  /\ optional_cell' = AfterCall(h, r.cell)
           /\ Called("remove_listener_" \o kind, name, h, 0, optional_cell, r)
    /\ UNCHANGED <<focusVars, treeVars, restVars, state_cell, vec_cell,
                   delivered, installed, removed>>

\* let other = cell.clone(): the second handle is replaced by a new clone
\* of the first
HandleClone ==
    /\ calls < MaxCalls
    /\ optional_cell' = [optional_cell EXCEPT
                            !["clone"] = OptionalState_clone(optional_cell["original"])]
    /\ Called("clone", "", "original", 0, optional_cell,
              Done(optional_cell["original"], <<>>, <<>>))
    /\ UNCHANGED <<focusVars, treeVars, restVars, state_cell, vec_cell,
                   delivered, installed, removed>>

HandlesNext ==
    \/ \E h \in Handles, kind \in ListenerKinds, name \in Names :
          HandleListen(h, kind, name)
    \/ \E h \in Handles, kind \in ListenerKinds, name \in Names :
          HandleRemoveListener(h, kind, name)
    \/ HandleClone

SpecHandles == HandlesInit /\ [][HandlesNext]_vars

(***************************************************************************)
(* SpecMirror: the window's pointer cells and the root gadget's, after     *)
(* window_root_setup registered the five forwarding listeners.  vec_cell   *)
(* holds the two mouse_down lists and optional_cell the two mouse_pos      *)
(* cells, one for the window and one for the root.  The backend writes the *)
(* window's cells; the runtime runs the spawned listener tasks in any      *)
(* order.                                                                  *)
(***************************************************************************)
Mirrored == {WindowParent, Root}
Buttons == {"Left", "Right"}

\* window.rs:152-200  the listeners window_root_setup registers on the
\* window's mouse_down
window_root_setup_mouse_down(c) ==
    Vec_listen_remove(
        Vec_listen_add(c, "mouse_down_add_sync", Closure(1, "mouse_down_add_sync")),
        "mouse_down_remove_sync", Closure(2, "mouse_down_remove_sync"))

\* and on the window's mouse_pos
window_root_setup_mouse_pos(c) ==
    Opt_listen_change(
        Opt_listen_unset(
            Opt_listen_set(c, "mouse_pos_set_sync", Closure(3, "mouse_pos_set_sync")),
            "mouse_pos_unset_sync", Closure(4, "mouse_pos_unset_sync")),
        "mouse_pos_change_sync", Closure(5, "mouse_pos_change_sync"))

\* the futures of the five listeners, acting on the root's cells
root_sync(t, down, pos, base) ==
    LET name == t.listener.name
        r == CASE name = "mouse_down_add_sync" -> Vec_push(down, t.event.new_value, base)
               [] name = "mouse_down_remove_sync" -> Vec_remove(down, t.event.old_value, base)
               [] name = "mouse_pos_set_sync" -> Opt_put(pos, t.event.value, base)
               [] name = "mouse_pos_unset_sync" -> Opt_take(pos, base)
               [] name = "mouse_pos_change_sync" -> Opt_put(pos, t.event.new_value, base)
    IN  [down |-> IF t.event.cell = "vec" THEN r.cell ELSE down,
         pos |-> IF t.event.cell = "optional" THEN r.cell ELSE pos,
         new |-> r.new]

MirrorInit ==
    /\ FocusIdle
    /\ TreeIdle
    /\ state_cell = StateNew(0)
    /\ vec_cell = [n \in Mirrored |->
                      IF n = WindowParent THEN window_root_setup_mouse_down(VecNew)
                      ELSE VecNew]
    /\ optional_cell = [n \in Mirrored |->
                           IF n = WindowParent
                           THEN window_root_setup_mouse_pos(OptionalNew(None))
                           ELSE OptionalNew(None)]
    /\ tasks = {}
    /\ spawned = <<>>
    /\ delivered = {}
    /\ installed = <<>>
    /\ removed = {}
    /\ calls = 0
    /\ RestIdle
    /\ last = NoCall

\* one call on the window's mouse_down that ended as r
MouseDownCalled(op, value, r) ==
    /\ vec_cell' = [vec_cell EXCEPT ![WindowParent] = r.cell]
    /\ Called(op, "", value, 0, vec_cell, r)
    /\ UNCHANGED <<focusVars, treeVars, restVars, state_cell, optional_cell,
                   delivered, installed, removed>>

\* one call on the window's mouse_pos that ended as r
MousePosCalled(op, value, r) ==
    /\ optional_cell' = [optional_cell EXCEPT ![WindowParent] = r.cell]
    /\ Called(op, "", value, 0, optional_cell, r)
    /\ UNCHANGED <<focusVars, treeVars, restVars, state_cell, vec_cell,
                   delivered, installed, removed>>

\* window.mouse_down.push(b)
MouseDownPush(b) ==
    /\ calls < MaxCalls
    /\ MouseDownCalled("push", b, Vec_push(vec_cell[WindowParent], b, Len(spawned)))

\* window.mouse_down.remove(&b)
MouseDownRemove(b) ==
    /\ calls < MaxCalls
    /\ MouseDownCalled("remove", b, Vec_remove(vec_cell[WindowParent], b, Len(spawned)))

\* window.mouse_pos.put(v)
MousePosPut(v) ==
    /\ calls < MaxCalls
    /\ MousePosCalled("put", v, Opt_put(optional_cell[WindowParent], v, Len(spawned)))

\* window.mouse_pos.take()
MousePosTake ==
    /\ calls < MaxCalls
    /\ MousePosCalled("take", 0, Opt_take(optional_cell[WindowParent], Len(spawned)))

\* the runtime runs the listener task t
MirrorTask(t) ==
    /\ t \in tasks
    /\ LET r == root_sync(t, vec_cell[Root], optional_cell[Root], Len(spawned))
       IN  /\ vec_cell' = [vec_cell EXCEPT ![Root] = r.down]
           /\ optional_cell' = [optional_cell EXCEPT ![Root] = r.pos]
           /\ spawned' = spawned \o r.new
           /\ tasks' = (tasks \ {t}) \cup Range(r.new)
    /\ delivered' = delivered \cup {t}
    /\ last' = [NoCall EXCEPT !.op = "task", !.name = t.listener.name,
                              !.before = <<vec_cell, optional_cell>>]
    /\ UNCHANGED <<focusVars, treeVars, restVars, state_cell, installed,
                   removed, calls>>

MirrorNext ==
    \/ \E b \in Buttons : MouseDownPush(b)
    \/ \E b \in Buttons : MouseDownRemove(b)
    \/ \E v \in Values : MousePosPut(v)
    \/ MousePosTake
    \/ \E t \in tasks : MirrorTask(t)

SpecMirror == MirrorInit /\ [][MirrorNext]_vars

(***************************************************************************)
(* SpecLayout: Layout::add_child and Layout::remove_child followed         *)
(* statement by statement.  Each is two awaited cell operations, each      *)
(* under its own lock, so another task of the runtime can read the cells   *)
(* between the two.                                                        *)
(***************************************************************************)
Tree == [parent |-> parent, children |-> children]

\* add_child up to the end of layout.rs:133
AddChildSet(p, c) ==
    /\ running = Idle
    /\ calls < MaxCalls
    /\ calls' = calls + 1
    /\ parent' = add_child_set(Tree, p, c).parent
    /\ running' = [op |-> "add_child", p |-> p, c |-> c, before |-> Tree]
    /\ UNCHANGED <<children, last, focusVars, cellVars, poolVars, held, alive>>

\* add_child from layout.rs:134 to its return
AddChildPush ==
    /\ running # Idle
    /\ running.op = "add_child"
    /\ children' = add_child_push(Tree, running.p, running.c).children
    /\ last' = running
    /\ running' = Idle
    /\ UNCHANGED <<parent, calls, focusVars, cellVars, poolVars, held, alive>>

\* remove_child up to the end of layout.rs:138
RemoveChildSet(p, c) ==
    /\ running = Idle
    /\ calls < MaxCalls
    /\ calls' = calls + 1
    /\ parent' = remove_child_set(Tree, p, c).parent
    /\ running' = [op |-> "remove_child", p |-> p, c |-> c, before |-> Tree]
    /\ UNCHANGED <<children, last, focusVars, cellVars, poolVars, held, alive>>

\* remove_child from layout.rs:139 to its return
RemoveChildRetain ==
    /\ running # Idle
    /\ running.op = "remove_child"
    /\ children' = remove_child_retain(Tree, running.p, running.c).children
    /\ last' = running
    /\ running' = Idle
    /\ UNCHANGED <<parent, calls, focusVars, cellVars, poolVars, held, alive>>

\* another task (a listener of c.parent, the renderer) reads c.parent and the
\* children lists
Observe(c) ==
    /\ calls < MaxCalls
    /\ calls' = calls + 1
    /\ delivered' = delivered \cup
          {[child |-> c, parent |-> parent[c],
            listed |-> {p \in Gadgets : Count(children[p], c) > 0},
            during |-> running.op]}
    /\ UNCHANGED <<focusVars, treeVars, cellVars, tasks, spawned, installed,
                   removed, restVars, last>>

LayoutNext ==
    \/ \E p \in Gadgets : \E c \in Gadgets \ {p} : AddChildSet(p, c)
    \/ AddChildPush
    \/ \E p \in Gadgets : \E c \in Gadgets \ {p} : RemoveChildSet(p, c)
    \/ RemoveChildRetain
    \/ \E c \in Gadgets : Observe(c)

SpecLayout == TreeInit /\ [][LayoutNext]_vars

(***************************************************************************)
(* SpecRef: strong handles (Gadget, an Arc) and references (GadgetRef, a   *)
(* Weak).  A gadget is owned by the handles the application holds, by the  *)
(* children list of each living gadget that lists it, and, for the root,   *)
(* by window.root; its parent cell and the focus tracker hold references   *)
(* only.  When the last owner goes the GadgetInner is dropped, and with it *)
(* its children list.  The window stays alive throughout.  The tree was    *)
(* built with Layout::add_child before.                                    *)
(***************************************************************************)
\* the places of g in the children lists of the living gadgets
ListedIn(tree, al, g) ==
    UNION {{<<p, i>> : i \in {j \in 1..Len(tree.children[p]) : tree.children[p][j] = g}}
           : p \in {q \in Gadgets : al[q]}}

\* Arc::strong_count of g
StrongCount(tree, h, al, g) ==
    h[g] + (IF g = Root THEN 1 ELSE 0) + Cardinality(ListedIn(tree, al, g))

\* drop every GadgetInner whose strong count is zero, and what it owned
RECURSIVE Reap(_, _, _)
Reap(tree, h, al) ==
    LET gone == {g \in Gadgets : al[g] /\ StrongCount(tree, h, al, g) = 0}
    IN  IF gone = {} THEN [tree |-> tree, alive |-> al]
        ELSE Reap([parent   |-> [g \in Gadgets |->
                                    IF g \in gone THEN NoGadget ELSE tree.parent[g]],
                   children |-> [g \in Gadgets |->
                                    IF g \in gone THEN <<>> ELSE tree.children[g]]],
                  h,
                  [g \in Gadgets |-> al[g] /\ g \notin gone])

RefInit ==
    /\ focused = NoGadget
    /\ manual_order = [some |-> FALSE, order |-> <<>>]
    /\ propagate = AllTrue
    /\ accept_focus \in {f \in [Gadgets -> BOOLEAN] : ~f[Root]}
    /\ lock_focus = AllFalse
    /\ gadget_focused = AllFalse
    /\ \E t \in SetupTrees(MaxSetup) :
          /\ parent = t.parent
          /\ children = t.children
    /\ CellsIdle
    /\ RestIdle
    /\ last = [op |-> "init"]

\* Layout::remove_child(&p, c.clone()) by the application
RefRemoveChild(p, c) ==
    /\ held[p] > 0 /\ held[c] > 0
    /\ LET after == remove_child(Tree, p, c)
           r     == Reap(after, held, alive)
       IN  /\ parent' = r.tree.parent
           /\ children' = r.tree.children
           /\ alive' = r.alive
    /\ last' = [op |-> "remove_child", p |-> p, c |-> c]
    /\ UNCHANGED <<focusVars, cellVars, poolVars, calls, running, held>>

\* the application drops a handle it holds
DropHandle(g) ==
    /\ held[g] > 0
    /\ LET h == [held EXCEPT ![g] = @ - 1]
           r == Reap(Tree, h, alive)
       IN  /\ held' = h
           /\ parent' = r.tree.parent
           /\ children' = r.tree.children
           /\ alive' = r.alive
    /\ last' = [op |-> "drop", g |-> g]
    /\ UNCHANGED <<focusVars, cellVars, poolVars, calls, running>>

\* a reference made earlier by g.refer() is resolved with get(); the handle
\* it gives is dropped again at the end of the statement
Resolve(g) ==
    /\ last' = [op |-> "get", g |-> g, result |-> GadgetRef_get(g),
                strong |-> StrongCount(Tree, held, alive, g)]
    /\ UNCHANGED <<focusVars, treeVars, cellVars, poolVars, calls, restVars>>

\* g.get_window() through a handle the application holds
GetWindow(g) ==
    /\ held[g] > 0
    /\ last' = [op |-> "get_window", g |-> g, result |-> get_window(Tree, g)]
    /\ UNCHANGED <<focusVars, treeVars, cellVars, poolVars, calls, restVars>>

RefNext ==
    \/ \E p \in Gadgets : \E c \in Gadgets \ {p} : RefRemoveChild(p, c)
    \/ \E g \in Gadgets : DropHandle(g)
    \/ \E g \in Gadgets : Resolve(g)
    \/ \E g \in Gadgets : GetWindow(g)
    \/ Cycle

SpecRef == RefInit /\ [][RefNext]_vars

\* Gadget::is_focused: the gadget's window is found through get_window and
\* the tracker's focused reference resolves to this gadget
is_focused(tree, g, f) ==
    /\ get_window(tree, g).window
    /\ f # NoGadget
    /\ GadgetRef_get(f) = g

\* SpecRefManual: as SpecRef, with a manual tab order or none
RefManualInit ==
    /\ focused = NoGadget
    /\ \E order \in NoDupSeqs(Leaves), some \in BOOLEAN :
          manual_order = [some |-> some, order |-> IF some THEN order ELSE <<>>]
    /\ propagate = AllTrue
    /\ accept_focus \in {f \in [Gadgets -> BOOLEAN] : ~f[Root]}
    /\ lock_focus = AllFalse
    /\ gadget_focused = AllFalse
    /\ \E t \in SetupTrees(MaxSetup) :
          /\ parent = t.parent
          /\ children = t.children
    /\ CellsIdle
    /\ RestIdle
    /\ last = [op |-> "init"]

SpecRefManual == RefManualInit /\ [][RefNext]_vars

(***************************************************************************)
(* Focus tracker properties (SpecFocus).                                   *)
(***************************************************************************)
ManualOnly(a) == manual_order.some /\ manual_order.order = <<a>>

\* C1: manual order [A], A accepts focus and does not lock it: every cycle()
\* completes and leaves the tracker Focused(A).
C1_SingleCandidateFixedPoint ==
    \A a \in Leaves :
        (last.op = "cycle" /\ ManualOnly(a) /\ accept_focus[a] /\ ~lock_focus[a])
            => (last.outcome = Returned /\ focused = a)

\* the scenario of C2: automatic mode, R propagates and has the children
\* [x, y], both non-propagating and accepting, no gadget locks the focus
TwoChildren(x, y) ==
    /\ ~manual_order.some
    /\ propagate[Root] /\ parent[Root] = WindowParent
    /\ children[Root] = <<x, y>> /\ parent[x] = Root /\ parent[y] = Root
    /\ ~propagate[x] /\ ~propagate[y]
    /\ accept_focus[x] /\ accept_focus[y]
    /\ ~lock_focus[x] /\ ~lock_focus[y]

\* C2: in that scenario a cycle() started Unfocused yields Focused(x), one
\* started from Focused(x) yields Focused(y), and one started from Focused(y)
\* yields Unfocused; each call returns.
C2_AutomaticOrder ==
    \A x \in Leaves, y \in Leaves :
        (x # y /\ TwoChildren(x, y) /\ last.op = "cycle")
            => /\ last.outcome = Returned
               /\ last.focused = NoGadget => focused = x
               /\ last.focused = x => focused = y
               /\ last.focused = y => focused = NoGadget

\* the third Tab of the scenario has been pressed
C2_Witness ==
    /\ TwoChildren("X", "Y")
    /\ last.op = "cycle" /\ last.focused = "Y" /\ focused = NoGadget
    /\ last.reads = {}

\* C3: if the focused gadget's lock_focus cell is true when cycle() is
\* called (manual or automatic mode), the focused cell and every gadget's
\* `focused` flag are the same after the call as before it.
C3_RefusalKeepsFocus ==
    (last.op = "cycle" /\ last.locked)
        => /\ focused = last.focused
           /\ gadget_focused = last.gfocused

\* a locked holder in manual mode, while another candidate accepts focus
C3_Witness ==
    /\ last.op = "cycle" /\ last.locked
    /\ manual_order.some
    /\ last.outcome = Returned
    /\ \E g \in last.reads : g # focused /\ accept_focus[g]

\* C4: if the focused gadget's lock_focus cell is true, cycle() reads no
\* candidate's accept_focus cell before it returns.
C4_RefusalReadsNothing ==
    (last.op = "cycle" /\ last.locked) => last.reads = {}

(***************************************************************************)
(* State cell properties (SpecState).                                      *)
(***************************************************************************)
\* the tasks spawned for listener l by the k-th set
SpawnedFor(l, k) ==
    {i \in 1..Len(spawned) : spawned[i].listener = l /\ spawned[i].cause = k}

\* every set spawns exactly one task for each listener registered then and
\* none for anyone else, and tasks are spawned in the order of the sets
OnePerSetInOrder ==
    /\ \A k \in 1..Len(installed) :
          \A l \in installed[k].listeners : Cardinality(SpawnedFor(l, k)) = 1
    /\ \A i \in 1..Len(spawned) :
          /\ spawned[i].cause \in 1..Len(installed)
          /\ spawned[i].listener \in installed[spawned[i].cause].listeners
    /\ \A i \in 1..Len(spawned), j \in 1..Len(spawned) :
          i < j => spawned[i].cause <= spawned[j].cause

\* C5 as stated: one notification per set and listener, in set order, and
\* the value a notification brings its listener is the value installed by
\* the set that caused it.
C5_NotificationCarriesValue ==
    /\ OnePerSetInOrder
    /\ \A d \in delivered : d.saw = installed[d.task.cause].value

\* C6: after listen(name, f) and remove_listener(name) on a cell no later
\* mutation of the cell notifies f, and the removal leaves every listener
\* registered under another name in place.
C6_RemovedListenerSilent ==
    /\ last.op = "set" =>
          \A i \in 1..Len(last.new) : last.new[i].listener.id \notin removed
    /\ last.op = "remove_listener" =>
          \A l \in Range(last.before[1].listeners) :
              l.name # last.name => l \in Range(state_cell.listeners)

(***************************************************************************)
(* StateVec properties (SpecVec).                                          *)
(***************************************************************************)
\* the tasks in new are one per listener, in registration order, each with event
OneTaskEach(new, listeners, event) ==
    /\ Len(new) = Len(listeners)
    /\ \A i \in 1..Len(new) :
          /\ new[i].listener = listeners[i]
          /\ new[i].event = event

\* C7: a cell's registry holds at most one entry per name, so one mutation
\* spawns at most one notification for a name.
C7_OneListenerPerName ==
    /\ \A name \in Names :
          /\ Count(vec_cell.id_add, name) <= 1
          /\ Count(vec_cell.id_remove, name) <= 1
    /\ \A name \in Names :
          Cardinality({i \in 1..Len(last.new) : last.new[i].listener.name = name}) <= 1

\* C8: push(v) on a list of length n appends v and emits one add event with
\* index n and new_value v; remove_at(i) with i below the length removes the
\* element at i and emits one remove event with old_index i and old_value
\* the element that was at i.  Each event goes to every listener of its kind.
C8_ListEvents ==
    LET b == last.before[1]
    IN  /\ last.op = "push" =>
              /\ last.outcome = Returned
              /\ vec_cell.data = Append(b.data, last.value)
              /\ last.events = <<StateVecAddEvent(Len(b.data), last.value)>>
              /\ OneTaskEach(last.new, b.on_add,
                             StateVecAddEvent(Len(b.data), last.value))
        /\ (last.op = "remove_at" /\ last.index < Len(b.data)) =>
              /\ last.outcome = Returned
              /\ Len(vec_cell.data) = Len(b.data) - 1
              /\ \A i \in 1..Len(vec_cell.data) :
                    vec_cell.data[i] = b.data[IF i <= last.index THEN i ELSE i + 1]
              /\ last.events = <<StateVecRemoveEvent(last.index, b.data[last.index + 1])>>
              /\ OneTaskEach(last.new, b.on_remove,
                             StateVecRemoveEvent(last.index, b.data[last.index + 1]))

\* the second of two different elements is removed while a remove listener
\* is registered
C8_Witness ==
    /\ last.op = "remove_at" /\ last.index = 1
    /\ Len(last.before[1].data) = 2
    /\ last.before[1].data[1] # last.before[1].data[2]
    /\ Len(last.new) = 1

\* C17: removing by an index that does not exist leaves the list unchanged,
\* spawns no event and returns a failure result to the caller; removing an
\* absent value likewise.
C17_MissingIndexFails ==
    LET b == last.before[1]
    IN  /\ (last.op = "remove_at" /\ last.index >= Len(b.data)) =>
              /\ last.outcome = Returned
              /\ vec_cell = b
              /\ last.events = <<>> /\ last.new = <<>>
        /\ (last.op = "remove" /\ Count(b.data, last.value) = 0) =>
              /\ last.outcome = Returned
              /\ vec_cell = b
              /\ last.events = <<>> /\ last.new = <<>>

\* the remove events of a call: the state cell's own event of remove_child
\* is not one of them
RemoveEvents(events) ==
    Cardinality({i \in 1..Len(events) : events[i].cell = "vec" /\ events[i].kind = "remove"})

\* C18: every operation that removes elements from a list cell emits one
\* remove event per removed element, carrying the removed value and the
\* index it was removed from, to every remove listener: remove_at, remove,
\* pop, clear, and remove_child on the children cell.
C18_RemovalsEmitEvents ==
    (last.op \in {"remove_at", "remove", "pop", "clear", "remove_child"}
        /\ last.outcome = Returned) =>
        LET b == last.before[1]
        IN  /\ RemoveEvents(last.events) = Len(b.data) - Len(vec_cell.data)
            /\ \A i \in 1..Len(last.events) :
                  (last.events[i].cell = "vec") =>
                      /\ last.events[i].kind = "remove"
                      /\ last.events[i].old_index < Len(b.data)
                      /\ last.events[i].old_value = b.data[last.events[i].old_index + 1]
            /\ Cardinality({i \in 1..Len(last.new) : last.new[i].event.cell = "vec"})
                  = RemoveEvents(last.events) * Len(b.on_remove)

(***************************************************************************)
(* OptionalState properties (SpecOptional).                                *)
(***************************************************************************)
\* C9: put, take and set emit one event per value transition, of one kind:
\* none->some a set event with the new value to the set listeners only,
\* some->none an unset event with the previous value to the unset listeners
\* only, some->some a change event with previous and new value to the change
\* listeners only, and none->none nothing.
C9_OptionalTransitions ==
    last.op \in {"put", "take", "set"} =>
        LET b   == last.before[1]
            old == b.data
            now == optional_cell.data
        IN  /\ last.outcome = Returned
            /\ now = last.value
            /\ (old = None /\ now # None) =>
                  /\ last.events = <<OptionalStateSetEvent(now[1])>>
                  /\ OneTaskEach(last.new, b.on_set, OptionalStateSetEvent(now[1]))
            /\ (old # None /\ now = None) =>
                  /\ last.events = <<OptionalStateUnsetEvent(old[1])>>
                  /\ OneTaskEach(last.new, b.on_unset, OptionalStateUnsetEvent(old[1]))
            /\ (old # None /\ now # None) =>
                  /\ last.events = <<OptionalStateChangedEvent(old[1], now[1])>>
                  /\ OneTaskEach(last.new, b.on_change,
                                 OptionalStateChangedEvent(old[1], now[1]))
            /\ (old = None /\ now = None) =>
                  /\ last.events = <<>>
                  /\ last.new = <<>>

\* a put replaces a value while a set and a change listener are registered
C9_Witness ==
    /\ last.op = "put"
    /\ last.before[1].data # None
    /\ last.before[1].data # optional_cell.data
    /\ Len(optional_cell.on_set) = 1
    /\ Len(optional_cell.on_change) = 1
    /\ Len(last.new) = 1

\* C16: removing a listener by a name that was never registered is a silent
\* no-op: the call completes and the cell's listeners and value are as before.
C16_MissingListenerNoOp ==
    LET b == last.before[1]
    IN  /\ (last.op = "remove_listener_set" /\ Count(b.id_set, last.name) = 0)
            => (last.outcome = Returned /\ optional_cell = b)
        /\ (last.op = "remove_listener_unset" /\ Count(b.id_unset, last.name) = 0)
            => (last.outcome = Returned /\ optional_cell = b)
        /\ (last.op = "remove_listener_change" /\ Count(b.id_change, last.name) = 0)
            => (last.outcome = Returned /\ optional_cell = b)

(***************************************************************************)
(* Gadget tree properties (SpecTree).                                      *)
(***************************************************************************)
\* C10: after any sequence of add_child and remove_child calls, every node
\* whose parent cell names a node appears exactly once in that node's
\* children list.
C10_ChildListedOnce ==
    \A n \in Gadgets :
        parent[n] \in Gadgets => Count(children[parent[n]], n) = 1

\* C11: add_child(P, C) followed by remove_child(P, C) restores C's parent
\* cell and P's children list to the values they had before the add_child.
C11_RoundTrip ==
    [][ (/\ last.op = "add_child"
         /\ last'.op = "remove_child"
         /\ last'.p = last.p
         /\ last'.c = last.c)
        => /\ parent'[last.c] = last.before.parent[last.c]
           /\ children'[last.p] = last.before.children[last.p] ]_vars

\* C12: after any sequence of add_child and remove_child calls the parent
\* cells hold no cycle, so get_window terminates from every gadget.
C12_NoParentCycle ==
    \A g \in Gadgets :
        get_window([parent |-> parent, children |-> children], g).outcome = Returned

(***************************************************************************)
(* Gadget tree, statement by statement (SpecLayout).                       *)
(***************************************************************************)
\* C13: during and after add_child / remove_child no other task observes
\* child.parent naming P while the child is not in P.children, or the child
\* in P.children while child.parent does not name P.
C13_MutationTogether ==
    \A d \in delivered :
        \A p \in Gadgets : (d.parent = p) <=> (p \in d.listed)

(***************************************************************************)
(* Handles and references (SpecRef).                                       *)
(***************************************************************************)
\* C14: while a gadget has at least one strong handle every reference to it
\* resolves to that gadget; once the last strong handle is dropped every
\* reference to it resolves to None, from then on.
C14_ReferenceResolution ==
    /\ [](last.op = "get" =>
            IF last.strong > 0 THEN last.result = last.g
                               ELSE last.result = NoGadget)
    /\ [][\A g \in Gadgets :
            StrongCount(Tree, held, alive, g) = 0
                => StrongCount(Tree, held, alive, g)' = 0]_vars

\* a reference is resolved after its gadget's last handle was dropped while
\* a gadget naming it as parent lives on
C14_Witness ==
    /\ last.op = "get"
    /\ last.strong = 0
    /\ \E x \in Gadgets : alive[x] /\ parent[x] = last.g

\* C15: no call aborts because a reference went stale: cycle() completes
\* when a gadget on its way has been destroyed.
C15_StaleIsNormal ==
    (last.op = "cycle" /\ \E g \in Gadgets : ~alive[g]) => last.outcome = Returned

C20_AtLeastAsNew ==
    /\ \A i \in 1..Len(spawned) : spawned[i].cause \in 1..Len(installed)
    /\ \A d \in delivered :
          /\ d.version >= d.task.cause
          /\ d.saw = installed[d.version].value

\* a listener task spawned by one set reads after a later set has stored a
\* different value
C20_Witness ==
    \E d \in delivered :
        /\ d.version > d.task.cause
        /\ installed[d.version].value # installed[d.task.cause].value

(***************************************************************************)
(* Concurrent sets (SpecConc).                                             *)
(***************************************************************************)
\* C21: concurrent mutating calls on a cell serialize on its write lock, and
\* for each listener the notification tasks are spawned in the order in
\* which the values were installed, for every interleaving of the callers.
C21_SerializedInOrder ==
    /\ Cardinality({c \in Callers : HoldsWrite(running, c)}) <= 1
    /\ \A i \in 1..Len(spawned) : spawned[i].cause \in 1..Len(installed)
    /\ \A i \in 1..Len(spawned), j \in 1..Len(spawned) :
          (i < j /\ spawned[i].listener = spawned[j].listener)
              => spawned[i].cause <= spawned[j].cause
    /\ \A k \in 1..Len(installed) :
          (\A c \in Callers : running[c] = Idle \/ running[c].cause # k
                                \/ running[c].at = "return")
              => \A l \in installed[k].listeners : Cardinality(SpawnedFor(l, k)) = 1

\* two sets that were in progress at the same time have both notified the
\* same listener
C21_Witness ==
    \E k \in 1..Len(installed), l \in Range(state_cell.listeners) :
        /\ k > 1
        /\ installed[k].contended /\ installed[k - 1].contended
        /\ SpawnedFor(l, k) # {} /\ SpawnedFor(l, k - 1) # {}

(***************************************************************************)
(* Calls from within a notification (SpecReenterLive).                     *)
(***************************************************************************)
\* C22: a listener task that calls listen, remove_listener or set on the
\* cell that notified it is never blocked forever: its call completes.
C22_ReentrantCallCompletes ==
    \A w \in Workers : (running[w] # Idle) ~> (running[w] = Idle)

\* a listen, a remove_listener or a set made by a listener task had to wait
\* for a lock and has completed, and both a set and a registration change
\* were among such calls
C22_Witness ==
    /\ \E d \in delivered : d.done /\ d.waited /\ d.saw = "set"
    /\ \E d \in delivered : d.done /\ d.waited /\ d.saw \in {"listen", "remove_listener"}

(***************************************************************************)
(* The Tab listener (SpecKeys).                                            *)
(***************************************************************************)
\* C23: a Tab press at the window triggers cycle() and Tab never enters a
\* gadget's key_down list; every other key is appended unchanged to the
\* key_down list of the node the focused cell names when the listener
\* handles the key, and to no other list (dropped when nothing is focused).
C23_TabIntercepted ==
    /\ \A g \in Gadgets : Tab \notin Range(vec_cell[g].data)
    /\ last.op = "task" =>
          LET before == last.before[1]
          IN  IF last.key = Tab
              THEN /\ last.cycled
                   /\ focused = cycle(Tracker(last.focused, last.gfocused)).focused
                   /\ vec_cell = before
              ELSE /\ ~last.cycled
                   /\ focused = last.focused
                   /\ \A g \in Gadgets :
                         vec_cell[g].data =
                            IF g = last.focused THEN Append(before[g].data, last.key)
                            ELSE before[g].data
                   /\ vec_cell[WindowParent] = before[WindowParent]

\* a Tab press moved the focus and a later key reached the newly focused
\* node, while the other nodes' lists stayed empty
C23_Witness ==
    /\ last.op = "task" /\ last.key # Tab
    /\ focused # NoGadget
    /\ vec_cell[focused].data # <<>>
    /\ \E i \in 1..Len(vec_cell[WindowParent].data) :
          vec_cell[WindowParent].data[i] = Tab
    /\ \A g \in Gadgets \ {focused} : vec_cell[g].data = <<>>

(***************************************************************************)
(* Gadget::get_window (SpecRef).                                           *)
(***************************************************************************)
\* path starts at g, follows parent cells through live gadgets only
LiveChain(path, g) ==
    /\ Len(path) >= 1
    /\ path[1] = g
    /\ \A i \in 1..(Len(path) - 1) :
          parent[path[i]] = path[i + 1] /\ alive[path[i + 1]]

LastOf(path) == path[Len(path)]

\* C24: get_window returns the window exactly when the chain of live parents
\* from the node ends in a Window parent; it returns None when the chain
\* ends in a node without parent or reaches a parent reference that no
\* longer resolves.
C24_WindowOfChain ==
    last.op = "get_window" =>
        /\ last.result.outcome = Returned
        /\ last.result.window <=>
              \E path \in NoDupSeqs(Gadgets) :
                  LiveChain(path, last.g) /\ parent[LastOf(path)] = WindowParent
        /\ ~last.result.window <=>
              \E path \in NoDupSeqs(Gadgets) :
                  /\ LiveChain(path, last.g)
                  /\ \/ parent[LastOf(path)] = NoGadget
                     \/ parent[LastOf(path)] \in Gadgets /\ ~alive[parent[LastOf(path)]]

\* get_window was called on a gadget whose grandparent is the root, at a time
\* when the root was in the window
C24_Witness ==
    /\ last.op = "get_window"
    /\ last.result.window
    /\ parent[last.g] \in Leaves
    /\ parent[parent[last.g]] = Root

\* get_window was called on a live gadget whose parent no longer exists
C24_WitnessStale ==
    /\ last.op = "get_window"
    /\ parent[last.g] \in Gadgets
    /\ ~alive[parent[last.g]]
    /\ ~last.result.window

(***************************************************************************)
(* Manual mode (SpecFocus).                                                *)
(***************************************************************************)
\* the entry of the manual list at 0-based position i
Entry(i) == manual_order.order[i + 1]

\* the entries of the manual list in circular order, starting at position
\* start
Circular(start) ==
    [k \in 1..Len(manual_order.order) |->
        Entry((start + k - 1) % Len(manual_order.order))]

\* the first gadget of seq that resolves and accepts the focus, if any
FirstAccepting(seq) ==
    LET hits == {k \in 1..Len(seq) : alive[seq[k]] /\ accept_focus[seq[k]]}
    IN  IF hits = {} THEN NoGadget
        ELSE seq[CHOOSE k \in hits : \A j \in hits : k <= j]

\* cycle() was called in manual mode with the focus on an entry of the list
\* that agreed to release
ManualFromEntry ==
    /\ last.op = "cycle"
    /\ manual_order.some
    /\ last.focused # NoGadget
    /\ Position(manual_order.order, last.focused) # -1
    /\ ~last.locked

\* C25: manual mode cycles circularly: with the focus at position i of a
\* list of length n, cycle() returns and focuses the first accepting
\* candidate in circular order from position (i+1) mod n; with the focus on
\* the last entry the scan starts at entry 0.
C25_ManualCircular ==
    LET n     == Len(manual_order.order)
        i     == Position(manual_order.order, last.focused)
        found == FirstAccepting(Circular((i + 1) % n))
    IN  (ManualFromEntry /\ found # NoGadget)
            => (last.outcome = Returned /\ focused = found)

\* C26: manual mode, non-empty list, no candidate accepts: a cycle() that
\* scans the whole list without an acceptance leaves the tracker Unfocused,
\* also when a node was focused before and agreed to release.
C26_NoCandidateUnfocused ==
    ( /\ last.op = "cycle" /\ manual_order.some
      /\ manual_order.order # <<>>
      /\ ~last.locked
      /\ last.outcome = Returned
      /\ FirstAccepting(manual_order.order) = NoGadget )
        => focused = NoGadget

\* C27: manual mode with a list that is empty or holds only stale
\* references: cycle() completes without failure; a focused node that
\* agrees to release loses the focus, otherwise nothing changes.
C27_EmptyListCompletes ==
    ( /\ last.op = "cycle" /\ manual_order.some
      /\ \A k \in 1..Len(manual_order.order) : ~alive[manual_order.order[k]] )
        => /\ last.outcome = Returned
           /\ focused = IF last.locked THEN last.focused ELSE NoGadget

(***************************************************************************)
(* Automatic mode (SpecFocus).                                             *)
(***************************************************************************)
\* the gadgets below the list kids from its k-th entry on, in depth-first
\* pre-order, children in list order, entering only propagating gadgets
RECURSIVE PreorderFrom(_, _, _)
PreorderFrom(kids, k, fuel) ==
    IF k > Len(kids) \/ fuel = 0 THEN <<>>
    ELSE <<kids[k]>>
         \o (IF propagate[kids[k]]
             THEN PreorderFrom(children[kids[k]], 1, fuel - 1)
             ELSE <<>>)
         \o PreorderFrom(kids, k + 1, fuel)

Depth == Cardinality(Gadgets)

AutoFromUnfocused ==
    last.op = "cycle" /\ ~manual_order.some /\ last.focused = NoGadget

\* C28: automatic mode starting Unfocused: if the root does not propagate
\* nothing changes; otherwise the focus goes to the first accepting node in
\* depth-first pre-order among the root's descendants whose ancestors up to
\* the root all propagate, and no node below a non-propagating child is
\* looked at.
C28_AutomaticFromRoot ==
    AutoFromUnfocused =>
        LET order == PreorderFrom(children[Root], 1, Depth)
        IN  /\ last.outcome = Returned
            /\ ~propagate[Root] =>
                  focused = NoGadget /\ gadget_focused = last.gfocused /\ last.reads = {}
            /\ propagate[Root] =>
                  focused = FirstAccepting(order) /\ last.reads \subseteq Range(order)

\* the focus went from Unfocused to a grandchild of the root
C28_Witness ==
    /\ AutoFromUnfocused
    /\ focused \in Leaves
    /\ parent[focused] \in Leaves
    /\ parent[parent[focused]] = Root

\* C29: a propagating container is never a focus target: automatic cycle()
\* never gives the focus to a node whose propagate flag is true, whatever
\* its accept_focus flag.
C29_ContainerNeverFocused ==
    ( /\ last.op = "cycle" /\ ~manual_order.some
      /\ focused # NoGadget /\ focused # last.focused )
        => ~propagate[focused]

\* the first accepting gadget found walking up from cur: at each propagating
\* ancestor the children after the subtree just left are searched
RECURSIVE UpwardSearch(_, _)
UpwardSearch(cur, fuel) ==
    IF fuel = 0 \/ parent[cur] \notin Gadgets THEN NoGadget
    ELSE LET p   == parent[cur]
             hit == IF propagate[p]
                    THEN FirstAccepting(
                            PreorderFrom(children[p],
                                         Position(children[p], cur) + 2, Depth))
                    ELSE NoGadget
         IN  IF hit # NoGadget THEN hit ELSE UpwardSearch(p, fuel - 1)

AutoFromFocused ==
    /\ last.op = "cycle" /\ ~manual_order.some
    /\ last.focused # NoGadget /\ ~last.locked

C30_WitnessSkipped ==
    /\ AutoFromFocused
    /\ parent[last.focused] \in Leaves
    /\ ~propagate[parent[last.focused]]

\* C31: automatic mode, the focused node agrees to release and the upward
\* walk finds no acceptor: cycle() falls back to a distribution from the
\* root, so the first accepting node of the root's pre-order search is
\* focused whenever there is one.
C31_FallbackFromRoot ==
    LET first == FirstAccepting(PreorderFrom(children[Root], 1, Depth))
    IN  ( /\ AutoFromFocused
          /\ UpwardSearch(last.focused, Depth) = NoGadget
          /\ propagate[Root]
          /\ first # NoGadget )
            => focused = first

(***************************************************************************)
(* The focus tracker and destroyed gadgets (SpecRef).                      *)
(***************************************************************************)
\* C32: automatic mode: when no node accepts the focus, the focused cell is
\* empty after a cycle() whose holder, if any, agreed to release, also when
\* the focused reference had gone stale before the call.
C32_NoAcceptorUnfocused ==
    ( /\ last.op = "cycle" /\ ~manual_order.some
      /\ ~last.locked
      /\ last.outcome = Returned
      /\ \A g \in Gadgets : alive[g] => ~accept_focus[g] )
        => focused = NoGadget

\* C33: once the node named by the focused cell has been destroyed, the
\* next cycle() (manual or automatic) selects the node a cycle() started
\* from an empty focused cell would select, and until then is_focused is
\* false for every node.
C33_DestroyedIsUnfocused ==
    /\ (focused # NoGadget /\ ~alive[focused]) =>
          \A g \in Gadgets : ~is_focused(Tree, g, focused)
    /\ (last.op = "cycle" /\ last.focused # NoGadget /\ ~alive[last.focused]) =>
          LET empty == cycle(Tracker(NoGadget, last.gfocused))
          IN  /\ last.outcome = empty.outcome
              /\ empty.focused # NoGadget => focused = empty.focused

(***************************************************************************)
(* The focused flags (SpecFocusTree).                                      *)
(***************************************************************************)
\* C34: between complete, non-overlapping cycle() calls, changes of the
\* flags and add_child / remove_child, a live gadget's `focused` cell is
\* true exactly when the tracker's focused cell names it; so at most one
\* gadget has focused = true.
C34_FocusedFlagMatches ==
    /\ \A g \in Gadgets : alive[g] => (gadget_focused[g] <=> focused = g)
    /\ Cardinality({g \in Gadgets : gadget_focused[g]}) <= 1

\* after the tree was changed a cycle() moved the focus from one gadget to
\* another
C34_Witness ==
    /\ last.op = "cycle"
    /\ last.focused \in Gadgets
    /\ focused \in Gadgets
    /\ focused # last.focused
    /\ calls >= 2

(***************************************************************************)
(* Overlapping cycle() calls (SpecTwoCycles).                              *)
(***************************************************************************)
\* C35: also when two cycle() calls interleave at their awaits, once both
\* have returned at most one gadget has its `focused` cell true, and it is
\* the gadget the tracker's focused cell names.
C35_OverlapKeepsOneFocus ==
    (\A c \in CycleTasks : running[c] = Idle) =>
        /\ Cardinality({g \in Gadgets : gadget_focused[g]}) <= 1
        /\ \A g \in Gadgets : gadget_focused[g] => focused = g

(***************************************************************************)
(* Termination of cycle() (SpecFocusAny).                                  *)
(***************************************************************************)
\* the gadgets reached from g through children lists in 1..fuel steps
RECURSIVE BelowByChildren(_, _)
BelowByChildren(g, fuel) ==
    IF fuel = 0 THEN {}
    ELSE LET kids == Range(children[g])
         IN  kids \cup UNION {BelowByChildren(k, fuel - 1) : k \in kids}

\* the gadgets reached from g through parent cells in 1..fuel steps
RECURSIVE AboveByParent(_, _)
AboveByParent(g, fuel) ==
    IF fuel = 0 \/ parent[g] \notin Gadgets THEN {}
    ELSE {parent[g]} \cup AboveByParent(parent[g], fuel - 1)

NoTreeCycle ==
    \A g \in Gadgets :
        g \notin BelowByChildren(g, Depth) /\ g \notin AboveByParent(g, Depth)

\* C36: every cycle() call terminates: the manual scan makes at most one
\* test per list entry, and the automatic search ends on every tree whose
\* parent links and children lists hold no cycle.
C36_CycleTerminates ==
    last.op = "cycle" =>
        LET t     == Tracker(last.focused, last.gfocused)
            order == manual_order.order
            begin == manual_begin(t, order)
        IN  IF manual_order.some
            THEN /\ last.outcome # Diverged
                 /\ manual_loop(t, order, begin, begin, Len(order)).outcome # Diverged
            ELSE NoTreeCycle => last.outcome # Diverged

\* an automatic cycle() searched a tree of depth two without a cycle and
\* ended without an acceptor
C36_Witness ==
    /\ last.op = "cycle" /\ ~manual_order.some
    /\ focused = NoGadget
    /\ last.outcome = Returned
    /\ NoTreeCycle
    /\ last.reads = Leaves
    /\ \E g \in Leaves : parent[g] \in Leaves

\* a manual cycle() scanned its whole list and ended without an acceptor
C36_WitnessManual ==
    /\ last.op = "cycle" /\ manual_order.some
    /\ focused = NoGadget
    /\ last.outcome = Returned
    /\ last.reads = Leaves

\* an automatic cycle() on a tree with a cycle never returned
C36_WitnessCycle ==
    /\ last.op = "cycle" /\ ~manual_order.some
    /\ ~NoTreeCycle
    /\ last.outcome = Diverged

(***************************************************************************)
(* Listener names under concurrency (SpecPair).                            *)
(***************************************************************************)
\* C37: when listen and remove_listener calls on one cell interleave, once
\* they have returned the name at position i still identifies the closure
\* at position i, so a removal by name removes the closure registered under
\* that name.
C37_NamesStayPaired ==
    (\A c \in Callers : running[c] = Idle) =>
        /\ Len(vec_cell.id_add) = Len(vec_cell.on_add)
        /\ \A i \in 1..Len(vec_cell.on_add) :
              vec_cell.on_add[i].name = vec_cell.id_add[i]

\* the closures of one kind that every handle of the cell sees
SharedListeners(cells, kind) ==
    LET c == cells["original"]
    IN  CASE kind = "remove_listener_set" -> c.on_set
          [] kind = "remove_listener_unset" -> c.on_unset
          [] kind = "remove_listener_change" -> c.on_change

\* C38: all handles of one OptionalState share one listener registry: when
\* exactly one listener of a kind is registered under a name, through
\* whichever handle, remove_listener_* of that name through any handle
\* returns and removes exactly that listener.
C38_HandlesShareRegistry ==
    (/\ last.op \in {"remove_listener_set", "remove_listener_unset",
                     "remove_listener_change"}
     /\ LET before == SharedListeners(last.before[1], last.op)
        IN  Cardinality({i \in 1..Len(before) : before[i].name = last.name}) = 1)
    => LET before == SharedListeners(last.before[1], last.op)
           after == SharedListeners(optional_cell, last.op)
           i == CHOOSE j \in 1..Len(before) : before[j].name = last.name
       IN  /\ last.outcome = Returned
           /\ after = RemoveIndex(before, i - 1)

\* C39: in every state where no listener task is left to run, the root's
\* mouse_down holds exactly the buttons of the window's mouse_down, and the
\* root's mouse_pos is set exactly when the window's is.
C39_RootMirrorsWindow ==
    tasks = {} =>
        /\ Range(vec_cell[Root].data) = Range(vec_cell[WindowParent].data)
        /\ (optional_cell[Root].data = None) = (optional_cell[WindowParent].data = None)

\* C40: once every listener task has run, a key other than Tab that is no
\* longer in the window's key_down is in no gadget's key_down.
C40_HeldKeysDoNotStick ==
    tasks = {} =>
        \A key \in Keys \ {Tab} :
            key \notin Range(vec_cell[WindowParent].data) =>
                \A g \in Gadgets : key \notin Range(vec_cell[g].data)

=============================================================================
